---- MODULE Spec2Model ----
(***************************************************************************)
(* Model of the LEGO investment ML pipeline (scripts/ml): the training-    *)
(* data build (milestone prices, log targets, winsorisation, upsert), the  *)
(* feature engineering step (theme-historical features) and the scoring    *)
(* run (load_models, fetch, features, score_sets, upsert_predictions).     *)
(*                                                                         *)
(* Numbers are fixed point.  Dates are whole days.  Prices are whole GBP.  *)
(* Natural logarithms are in thousandths (LnMilli); a log-return target is *)
(* kept in units of 1/(1000*WScale) so that the interpolated percentiles   *)
(* of winsorise_targets are exact integers.  A nullable value is <<>>      *)
(* (null / None), <<0, 0>> (a float NaN) or <<v>>.                         *)
(***************************************************************************)
EXTENDS Integers, Sequences, FiniteSets, TLC

VARIABLES
    brickset_sets,             \* table brickset_sets: set of rows
    price_snapshots,           \* table price_snapshots: set of rows (append-only)
    investment_training_data,  \* table investment_training_data: set_num -> row
    winsor_run,                \* a table of targets and its successive winsorisations
    model_files,               \* MODELS_DIR: the <<horizon, file>> pairs that exist
    investment_predictions,    \* table investment_predictions: set_num -> row
    score_run,                 \* what the last scoring run fetched, computed, logged, returned
    backtest_run,              \* the validator's frame and what the last backtest computed
    investment_model_runs,     \* table investment_model_runs: the records inserted, in order
    artifact_origin,           \* per file of MODELS_DIR, the training run that wrote it
    train_run,                 \* the trainer process: where it is and what it handed to the regressors
    pipeline,                  \* run_pipeline.main(): steps attempted, their statuses, exit status
    validation_run,            \* the validator process: stores accessed, fits made per protocol
    sanitize_run,              \* a record, and the payload a sanitizer made of it
    search_run,                \* the hyperparameter search of one horizon: fold reached, best so far
    page_run,                  \* an offset-pagination loop: the result set, requests made, rows kept
    calibration_run,           \* the pooled predictions of a calibration run and its report
    portfolio_run              \* the validator's frame, --top-n and the groups of each evaluated fold

storeVars == <<brickset_sets, price_snapshots, investment_training_data>>
winsorVars == <<winsor_run>>
scoreVars == <<model_files, investment_predictions, score_run>>
backtestVars == <<backtest_run>>
trainVars == <<investment_model_runs, artifact_origin, train_run>>
pipelineVars == <<pipeline>>
validationVars == <<validation_run>>
payloadVars == <<sanitize_run>>
loopVars == <<search_run, page_run, calibration_run, portfolio_run>>

vars == <<storeVars, winsorVars, scoreVars, backtestVars, trainVars, pipelineVars,
          validationVars, payloadVars, loopVars>>

\* What the trainer, the orchestrator and the validator process hold.
processVars == <<trainVars, pipelineVars, validationVars, payloadVars, loopVars>>
\* What the steps of the build and feature pipeline leave alone.
otherThanStore == <<winsorVars, scoreVars, backtestVars, processVars>>
\* What an application of winsorise_targets to a table leaves alone.
otherThanWinsor == <<storeVars, scoreVars, backtestVars, processVars>>
\* What a scoring run leaves alone.
otherThanScore == <<storeVars, winsorVars, backtestVars, processVars>>
\* What a backtest leaves alone.
otherThanBacktest == <<storeVars, winsorVars, scoreVars, processVars>>

----------------------------------------------------------------------------
(* Generic helpers: nullable values, bags held as sequences.               *)

None == <<>>
NaN == <<0, 0>>
Some(v) == <<v>>
NotNull(x) == x # <<>>
IsNull(x) == x = <<>>
\* pd.notna: neither None nor NaN.
IsValue(x) == Len(x) = 1

Range(s) == {s[i] : i \in DOMAIN s}

RECURSIVE SeqOfSet(_)
SeqOfSet(S) ==
    IF S = {} THEN <<>>
    ELSE LET x == CHOOSE y \in S : TRUE IN <<x>> \o SeqOfSet(S \ {x})

RECURSIVE SumSeq(_)
SumSeq(s) == IF s = <<>> THEN 0 ELSE Head(s) + SumSeq(Tail(s))

Min2(a, b) == IF a <= b THEN a ELSE b
Max2(a, b) == IF a >= b THEN a ELSE b
Abs(x) == IF x < 0 THEN 0 - x ELSE x

\* k-th smallest (1-based) element of a non-empty sequence of integers.
Kth(s, k) ==
    CHOOSE v \in Range(s) :
        /\ Cardinality({i \in DOMAIN s : s[i] < v}) < k
        /\ k <= Cardinality({i \in DOMAIN s : s[i] <= v})

\* pandas Series.median(): the middle value, or the mean of the two middle
\* values.  The inputs of the model keep the sum of the two even.
Median(s) ==
    LET n == Len(s) IN
    IF n % 2 = 1 THEN Kth(s, (n + 1) \div 2)
    ELSE (Kth(s, n \div 2) + Kth(s, n \div 2 + 1)) \div 2

----------------------------------------------------------------------------
(* config.py                                                               *)

MIN_RRP_GBP == 5
MIN_EXIT_DAY == 0          \* MIN_EXIT_YEAR-01-01 is day 0 of the model's calendar
MIN_SNAPSHOTS_PER_WINDOW == 3

MilestoneNames == <<"retirement", "6m", "1yr", "2yr", "3yr">>
MILESTONES ==
    [m \in Range(MilestoneNames) |->
        CASE m = "retirement" -> <<0, 15>>
          [] m = "6m"         -> <<180, 30>>
          [] m = "1yr"        -> <<365, 30>>
          [] m = "2yr"        -> <<730, 30>>
          [] m = "3yr"        -> <<1095, 30>>]

HORIZONS == <<"6m", "1yr", "2yr", "3yr">>
HorizonSet == Range(HORIZONS)

WINSOR_LOW == 1            \* 0.02, in fiftieths
WINSOR_HIGH == 49          \* 0.98, in fiftieths
WINSOR_MIN_VALID == 10

----------------------------------------------------------------------------
(* Fixed-point logarithm: LnMilli[k] = round(1000 * ln k), k in 1..40.     *)

LnMilli ==
    <<0, 693, 1099, 1386, 1609, 1792, 1946, 2079, 2197, 2303,
      2398, 2485, 2565, 2639, 2708, 2773, 2833, 2890, 2944, 2996,
      3045, 3091, 3135, 3178, 3219, 3258, 3296, 3332, 3367, 3401,
      3434, 3466, 3497, 3526, 3555, 3584, 3611, 3638, 3664, 3689>>

WScale == 50 * 50

\* math.log(price / rrp)
LogReturn(price, rrp) == WScale * (LnMilli[price] - LnMilli[rrp])

----------------------------------------------------------------------------
(* build_training_data.py                                                  *)

\* Rows of brickset_sets (exit_date not null) in the order of .order("exit_date").
RECURSIVE OrderByExit(_)
OrderByExit(S) ==
    IF S = {} THEN <<>>
    ELSE LET x == CHOOSE y \in S : \A z \in S :
                      \/ y.exit_date[1] < z.exit_date[1]
                      \/ (y.exit_date = z.exit_date /\ y.set_number <= z.set_number)
         IN <<x>> \o OrderByExit(S \ {x})

\* fetch_retired_sets(), reading the table bs.
fetch_retired_sets(bs) ==
    OrderByExit({r \in bs :
                    /\ r.retirement_status = "retired"
                    /\ NotNull(r.exit_date)
                    /\ r.exit_date[1] >= MIN_EXIT_DAY
                    /\ NotNull(r.uk_retail_price)
                    /\ r.uk_retail_price[1] >= MIN_RRP_GBP})

\* fetch_price_snapshots(set_nums), reading the table ps (price_gbp not null).
fetch_price_snapshots(ps, set_nums) ==
    {s \in ps : s.set_num \in set_nums}

WindowSnapsOpenEnd(set_snaps, exit_date, milestone) ==
    LET centre_days == MILESTONES[milestone][1]
        half_width  == MILESTONES[milestone][2]
        window_start == exit_date + (centre_days - half_width)
        window_end   == exit_date + (centre_days + half_width)
    IN {s \in set_snaps : s.date >= window_start /\ s.date < window_end}

\* The observations of one milestone window: both ends inclusive.
WindowSnaps(set_snaps, exit_date, milestone) ==
    LET centre_days == MILESTONES[milestone][1]
        half_width  == MILESTONES[milestone][2]
        window_start == exit_date + (centre_days - half_width)
        window_end   == exit_date + (centre_days + half_width)
    IN {s \in set_snaps : s.date >= window_start /\ s.date <= window_end}

PricesOf(snaps) == LET q == SeqOfSet(snaps) IN [i \in DOMAIN q |-> q[i].price_gbp]

MilestonePrice(set_snaps, exit_date, milestone) ==
    LET window_snaps == WindowSnaps(set_snaps, exit_date, milestone) IN
    IF Cardinality(window_snaps) >= MIN_SNAPSHOTS_PER_WINDOW
    THEN Some(Median(PricesOf(window_snaps)))
    ELSE None

TargetOf(price, rrp) ==
    IF NotNull(price) /\ price[1] > 0 /\ rrp > 0
    THEN Some(LogReturn(price[1], rrp))
    ELSE None

DataQuality(targets) ==
    LET target_count == Cardinality({h \in HorizonSet : NotNull(targets[h])}) IN
    IF target_count = 4 THEN "good"
    ELSE IF target_count >= 1 THEN "partial"
    ELSE "insufficient"

MilestoneRow(row, set_snaps) ==
    LET exit_date == row.exit_date[1]
        rrp     == row.uk_retail_price[1]
        prices  == [m \in Range(MilestoneNames) |->
                       MilestonePrice(set_snaps, exit_date, m)]
        targets == [h \in HorizonSet |-> TargetOf(prices[h], rrp)]
    IN [set_num        |-> row.set_number,
        exit_date      |-> exit_date,
        rrp_gbp        |-> rrp,
        price          |-> prices,
        target         |-> targets,
        data_quality   |-> DataQuality(targets),
        snapshot_count |-> Cardinality(set_snaps)]

\* One result row per set that has at least one snapshot, in sets_df order.
compute_milestone_prices(sets_df, snapshots_df) ==
    LET has == SelectSeq(sets_df,
                 LAMBDA r : {s \in snapshots_df : s.set_num = r.set_number} # {})
    IN [i \in DOMAIN has |->
          MilestoneRow(has[i], {s \in snapshots_df : s.set_num = has[i].set_number})]

\* pandas Series.quantile(q) with linear interpolation, q in fiftieths:
\* position (n-1)*q, the value at its floor plus the fraction of the gap to
\* the next value.
Quantile(valid, q50) ==
    LET n     == Len(valid)
        pos50 == (n - 1) * q50
        idx   == pos50 \div 50
        r     == pos50 % 50
        lower == Kth(valid, idx + 1)
        upper == Kth(valid, Min2(idx + 2, n))
    IN lower + (r * (upper - lower)) \div 50

Clip(v, low, high) == Max2(low, Min2(v, high))

\* As WinsoriseColumn, with the lower bound left out of the clip.
WinsoriseColumnUpperOnly(col) ==
    LET valid == SelectSeq(col, NotNull)
        vals  == [i \in DOMAIN valid |-> valid[i][1]]
    IN IF Len(vals) < WINSOR_MIN_VALID THEN col
       ELSE LET high == Quantile(vals, WINSOR_HIGH)
            IN [i \in DOMAIN col |->
                  IF IsNull(col[i]) THEN None ELSE Some(Min2(col[i][1], high))]

\* One target column (a sequence of nullable values) winsorised.
WinsoriseColumn(col) ==
    LET valid == SelectSeq(col, NotNull)
        vals  == [i \in DOMAIN valid |-> valid[i][1]]
    IN IF Len(vals) < WINSOR_MIN_VALID THEN col
       ELSE LET low  == Quantile(vals, WINSOR_LOW)
                high == Quantile(vals, WINSOR_HIGH)
            IN [i \in DOMAIN col |->
                  IF IsNull(col[i]) THEN None ELSE Some(Clip(col[i][1], low, high))]

winsorise_targets(df) ==
    LET clipped == [h \in HorizonSet |->
                      WinsoriseColumn([i \in DOMAIN df |-> df[i].target[h]])]
    IN [i \in DOMAIN df |->
          [df[i] EXCEPT !.target = [h \in HorizonSet |-> clipped[h][i]]]]

\* Deduplicate by set_num, keeping the first record.
Deduped(records) ==
    LET firsts == SelectSeq([i \in DOMAIN records |-> i],
                    LAMBDA i : \A j \in 1..(i - 1) : records[j].set_num # records[i].set_num)
    IN [k \in DOMAIN firsts |-> records[firsts[k]]]

\* upsert(records, on_conflict = set_num): the columns sent replace the
\* stored ones; a column that is not sent (features) keeps its stored value,
\* or is null on insert.
UpsertBuildRows(table, records) ==
    LET sent == Range(records)
        nums == {r.set_num : r \in sent}
        RowOf(n) == CHOOSE r \in sent : r.set_num = n
    IN [n \in DOMAIN table \cup nums |->
          IF n \in nums
          THEN [set_num        |-> n,
                exit_date      |-> RowOf(n).exit_date,
                rrp_gbp        |-> RowOf(n).rrp_gbp,
                price          |-> RowOf(n).price,
                target         |-> RowOf(n).target,
                data_quality   |-> RowOf(n).data_quality,
                snapshot_count |-> RowOf(n).snapshot_count,
                features       |-> IF n \in DOMAIN table THEN table[n].features ELSE None]
          ELSE table[n]]

UpsertedTrainingUnfiltered(table, df) == UpsertBuildRows(table, Deduped(df))

\* upsert_training_data(df): the good and partial rows, deduplicated, upserted.
UpsertedTraining(table, df) ==
    UpsertBuildRows(table,
        Deduped(SelectSeq(df, LAMBDA r : r.data_quality \in {"good", "partial"})))

\* Steps 1 to 4 of build_training_data.run() over the tables bs and ps: the
\* winsorised training rows (no row when either fetch comes back empty).
TrainingRows(bs, ps) ==
    LET sets_df      == fetch_retired_sets(bs)
        set_nums     == {sets_df[i].set_number : i \in DOMAIN sets_df}
        snapshots_df == fetch_price_snapshots(ps, set_nums)
    IN IF sets_df = <<>> \/ snapshots_df = {} THEN <<>>
       ELSE winsorise_targets(compute_milestone_prices(sets_df, snapshots_df))

\* build_training_data.run(): fetch, milestones, winsorise, upsert.
BuildTrainingData ==
    /\ \E training_df \in {TrainingRows(brickset_sets, price_snapshots)} :
          /\ training_df # <<>>
          /\ investment_training_data' =
                UpsertedTraining(investment_training_data, training_df)
    /\ UNCHANGED <<brickset_sets, price_snapshots, otherThanStore>>

----------------------------------------------------------------------------
(* engineer_features.py                                                    *)

RECURSIVE OrderTraining(_)
OrderTraining(S) ==
    IF S = {} THEN <<>>
    ELSE LET x == CHOOSE y \in S : \A z \in S :
                      \/ y.exit_date < z.exit_date
                      \/ (y.exit_date = z.exit_date /\ y.set_num <= z.set_num)
         IN <<x>> \o OrderTraining(S \ {x})

\* theme of a set in brickset_sets (left merge: null when there is no row).
ThemeOf(bs, n) ==
    IF \E r \in bs : r.set_number = n
    THEN (CHOOSE r \in bs : r.set_number = n).theme
    ELSE None

\* fetch_training_sets(): good/partial rows ordered by exit_date, merged with
\* the metadata of brickset_sets.
fetch_training_sets(table, bs) ==
    LET rows == OrderTraining({table[n] : n \in DOMAIN table})
        kept == SelectSeq(rows, LAMBDA r : r.data_quality \in {"good", "partial"})
    IN [i \in DOMAIN kept |->
          [set_num   |-> kept[i].set_num,
           exit_date |-> kept[i].exit_date,
           rrp_gbp   |-> kept[i].rrp_gbp,
           target    |-> kept[i].target,
           theme     |-> ThemeOf(bs, kept[i].set_num)]]

\* The results df.sort_values("exit_date") can give: the default sort kind is
\* not stable, so rows that share an exit_date come out in any order.  A
\* result is the sequence of the input positions in sorted order.
RECURSIVE SortOrders(_, _)
SortOrders(df, used) ==
    IF used = DOMAIN df THEN {<<>>}
    ELSE LET rest  == DOMAIN df \ used
             first == {j \in rest : \A k \in rest : df[j].exit_date <= df[k].exit_date}
         IN UNION {{<<j>> \o t : t \in SortOrders(df, used \cup {j})} : j \in first}

\* The stable result: ties keep their input order.
RECURSIVE StableOrder(_, _)
StableOrder(df, used) ==
    IF used = DOMAIN df THEN <<>>
    ELSE LET rest  == DOMAIN df \ used
             first == {j \in rest : \A k \in rest : df[j].exit_date <= df[k].exit_date}
             j     == CHOOSE m \in first : \A k \in first : m <= k
         IN <<j>> \o StableOrder(df, used \cup {j})

sort_values(df) == SortOrders(df, {})

\* prior: the positions of df whose rows are aggregated for `row` at `horizon`.
PriorRows(df, row, horizon) ==
    IF IsNull(row.theme) THEN {}
    ELSE {j \in DOMAIN df :
            /\ df[j].theme = row.theme
            /\ df[j].exit_date < row.exit_date
            /\ NotNull(df[j].target[horizon])}

StdNum(vals) ==
    LET n  == Len(vals)
        xs == [i \in DOMAIN vals |-> vals[i] \div WScale]
    IN n * SumSeq([i \in DOMAIN xs |-> xs[i] * xs[i]]) - SumSeq(xs) * SumSeq(xs)

THEME_MIN_PRIOR == 3

\* The four theme features of one row at one horizon; prior_sets records the
\* set_nums of the rows that were aggregated.
ThemeFeatures(df, row, horizon) ==
    LET prior == PriorRows(df, row, horizon)
        q     == SeqOfSet(prior)
        vals  == [i \in DOMAIN q |-> df[q[i]].target[horizon][1]]
        sets  == {df[j].set_num : j \in prior}
    IN IF IsNull(row.theme)
       THEN [mean |-> None, median |-> None, std |-> None, n |-> 0,
             prior_sets |-> {}, of_set |-> row.set_num]
       ELSE IF Cardinality(prior) >= THEME_MIN_PRIOR
       THEN [mean   |-> Some(SumSeq(vals) \div Len(vals)),
             median |-> Some(Median(vals)),
             std    |-> Some(StdNum(vals)),
             n      |-> Cardinality(prior),
             prior_sets |-> sets, of_set |-> row.set_num]
       ELSE [mean |-> None, median |-> None, std |-> None, n |-> Cardinality(prior),
             prior_sets |-> sets, of_set |-> row.set_num]

\* compute_theme_historical_features(df) for one outcome `order` of the sort:
\* the feature lists are built in sorted order, labelled 0..n-1 and then
\* reindexed by df.index, so the row at input position i receives the
\* features computed for the row at sorted position i.
compute_theme_historical_features(df, order) ==
    [i \in DOMAIN df |->
        [h \in HorizonSet |-> ThemeFeatures(df, df[order[i]], h)]]

\* discount_at_retirement of compute_price_trajectory_features (in percent).
DiscountAtRetirement(ps, row) ==
    LET s == {x \in ps : x.set_num = row.set_num}
        retirement_window == {x \in s : x.date >= row.exit_date - 15
                                        /\ x.date <= row.exit_date + 15}
    IN IF retirement_window # {} /\ row.rrp_gbp > 0
       THEN Some(((row.rrp_gbp - Median(PricesOf(retirement_window))) * 100) \div row.rrp_gbp)
       ELSE None

\* What retirement_window.iloc[-1] can be: the observations of the set are
\* read with order("date"), so the last row of the window is one of those
\* with the latest date, whichever the store returned last.
LastOfWindow(ps, row) ==
    LET s == {x \in ps : x.set_num = row.set_num}
        retirement_window == {x \in s : x.date >= row.exit_date - 15
                                        /\ x.date <= row.exit_date + 15}
    IN {x \in retirement_window : \A y \in retirement_window : y.date <= x.date}

\* seller_count_at_retirement and buy_box_is_amazon, taken from last_snap.
OfLastSnapshot(last_snap) ==
    [seller_count_at_retirement |-> last_snap.seller_count,
     buy_box_is_amazon |->
         IF last_snap.buy_box_winner = Some("Amazon") THEN Some(1) ELSE Some(0)]

\* The values the two columns can take for a row: null when the window is
\* empty or the RRP is not positive.
LastSnapshotValues(ps, row) ==
    IF LastOfWindow(ps, row) # {} /\ row.rrp_gbp > 0
    THEN {OfLastSnapshot(x) : x \in LastOfWindow(ps, row)}
    ELSE {[seller_count_at_retirement |-> None, buy_box_is_amazon |-> None]}

\* The outcomes of the reads of price_snapshots for the first n rows of df:
\* per row, the values taken from its last_snap.
RECURSIVE SnapshotReads(_, _, _)
SnapshotReads(ps, df, n) ==
    IF n = 0 THEN {<<>>}
    ELSE {Append(t, x) : t \in SnapshotReads(ps, df, n - 1),
                         x \in LastSnapshotValues(ps, df[n])}

\* build_feature_matrix(df) for one outcome `order` of the sort and one
\* outcome `last` of the reads of price_snapshots.
build_feature_matrix(ps, df, order, last) ==
    LET theme_hist == compute_theme_historical_features(df, order) IN
    [i \in DOMAIN df |->
        [theme |-> theme_hist[i],
         discount_at_retirement |-> DiscountAtRetirement(ps, df[i]),
         seller_count_at_retirement |-> last[i].seller_count_at_retirement,
         buy_box_is_amazon |-> last[i].buy_box_is_amazon]]

\* update_features_in_db: upsert of set_num, exit_date, rrp_gbp, features;
\* the other stored columns keep their values.
UpdatedFeatures(table, df, features) ==
    LET FirstPos(n) == CHOOSE i \in DOMAIN df :
                          df[i].set_num = n /\ \A j \in 1..(i - 1) : df[j].set_num # n
        nums == {df[i].set_num : i \in DOMAIN df}
    IN [n \in DOMAIN table |->
          IF n \in nums
          THEN [table[n] EXCEPT !.exit_date = df[FirstPos(n)].exit_date,
                                !.rrp_gbp   = df[FirstPos(n)].rrp_gbp,
                                !.features  = Some(features[FirstPos(n)])]
          ELSE table[n]]

\* engineer_features.run()
EngineerFeatures ==
    /\ \E df \in {fetch_training_sets(investment_training_data, brickset_sets)} :
          /\ df # <<>>
          /\ \E order \in sort_values(df),
                last \in SnapshotReads(price_snapshots, df, Len(df)) :
                investment_training_data' =
                    UpdatedFeatures(investment_training_data, df,
                                    build_feature_matrix(price_snapshots, df, order, last))
    /\ UNCHANGED <<brickset_sets, price_snapshots, otherThanStore>>

----------------------------------------------------------------------------
(* The price-history importer (external to the core): price_snapshots is   *)
(* append-only.  batch 0 is the history present at the start, batch 1 the  *)
(* rows imported afterwards.                                               *)

MaxImports == 1

ImportOffsets == {0 - 16, 0 - 15, 15, 16, 149, 150, 210, 211}
ImportPrices == {10, 20}

ImportSnapshot ==
    /\ Cardinality({s \in price_snapshots : s.batch = 1}) < MaxImports
    /\ \E r \in {x \in brickset_sets : NotNull(x.exit_date)},
          off \in ImportOffsets, p \in ImportPrices :
          price_snapshots' = price_snapshots \cup
              {[set_num |-> r.set_number, date |-> r.exit_date[1] + off,
                price_gbp |-> p, seller_count |-> Some(3),
                buy_box_winner |-> Some("Amazon"), batch |-> 1]}
    /\ UNCHANGED <<brickset_sets, investment_training_data, otherThanStore>>

----------------------------------------------------------------------------
(* score_sets.py                                                           *)
(*                                                                         *)
(* Percentages are in hundredths of a percent, prices and profits in       *)
(* pence, confidences, ranks, discounts and momenta in ten-thousandths,    *)
(* volatilities in thousandths, scores in hundredths.  The regressors'     *)
(* outputs are log returns in thousandths, or NaN.                         *)

RoundDiv(a, b) == (2 * a + b) \div (2 * b)

\* The largest k in lo..hi with k * k <= n.
RECURSIVE IsqrtBetween(_, _, _)
IsqrtBetween(lo, hi, n) ==
    IF lo = hi THEN lo
    ELSE LET mid == (lo + hi + 1) \div 2
         IN IF mid * mid <= n THEN IsqrtBetween(mid, hi, n)
            ELSE IsqrtBetween(lo, mid - 1, n)

Isqrt(n) == IsqrtBetween(0, 46340, n)

\* math.exp on the regressors' outputs, in ten-thousandths.
Exp4(x) ==
    CASE x = 0 - 693 -> 5001
      [] x = 0       -> 10000
      [] x = 405     -> 14993
      [] x = 693     -> 19997

QUANTILES == <<"p25", "p50", "p75">>
ModelFileKinds == {"features", "p25", "p50", "p75"}
MODEL_VERSION == "v2.1"

\* load_models(): the horizons, in HORIZONS order, whose feature list exists
\* and whose three quantile models all exist.
load_models(files) ==
    SelectSeq(HORIZONS,
        LAMBDA h : /\ <<h, "features">> \in files
                   /\ Cardinality({q \in Range(QUANTILES) : <<h, q>> \in files}) = 3)

RECURSIVE OrderBySetNumber(_)
OrderBySetNumber(S) ==
    IF S = {} THEN <<>>
    ELSE LET x == CHOOSE y \in S : \A z \in S : y.set_number <= z.set_number
         IN <<x>> \o OrderBySetNumber(S \ {x})

RECENT_EXIT_DAY == 4749        \* 2025-01-01, counted from 2012-01-01

\* Query 1 of fetch_active_sets.
ActiveRows(bs) ==
    OrderBySetNumber({r \in bs :
        /\ r.retirement_status \in {"available", "retiring_soon"}
        /\ NotNull(r.uk_retail_price)
        /\ r.uk_retail_price[1] >= 5})

\* Query 2 of fetch_active_sets.
RecentlyRetiredRows(bs) ==
    OrderBySetNumber({r \in bs :
        /\ r.retirement_status = "retired"
        /\ NotNull(r.exit_date)
        /\ r.exit_date[1] >= RECENT_EXIT_DAY
        /\ NotNull(r.uk_retail_price)
        /\ r.uk_retail_price[1] >= 5})

\* fetch_active_sets(): both queries, first occurrence of each set_number.
fetch_active_sets(bs) ==
    LET all_rows == ActiveRows(bs) \o RecentlyRetiredRows(bs)
        keep == SelectSeq([i \in DOMAIN all_rows |-> i],
                    LAMBDA i : \A j \in 1..(i - 1) :
                                  all_rows[j].set_number # all_rows[i].set_number)
    IN [k \in DOMAIN keep |-> all_rows[keep[k]]]

\* train_df of fetch_theme_stats(): the set_nums of the good and partial rows.
ThemeStatsFrame(table) ==
    {n \in DOMAIN table : table[n].data_quality \in {"good", "partial"}}

\* fetch_theme_stats(): per horizon, per theme of the training rows with a
\* defined target, the mean, median, std and count of the targets (std of a
\* single value is NaN; a row without theme belongs to no group).
fetch_theme_stats(table, bs) ==
    [h \in HorizonSet |->
        LET valid  == {n \in ThemeStatsFrame(table) :
                          NotNull(table[n].target[h]) /\ NotNull(ThemeOf(bs, n))}
            themes == {ThemeOf(bs, n)[1] : n \in valid}
        IN [t \in themes |->
              LET q    == SeqOfSet({n \in valid : ThemeOf(bs, n) = Some(t)})
                  vals == [i \in DOMAIN q |-> table[q[i]].target[h][1]]
              IN [mean   |-> Some(SumSeq(vals) \div Len(vals)),
                  median |-> Some(Median(vals)),
                  std    |-> IF Len(vals) >= 2 THEN Some(StdNum(vals)) ELSE NaN,
                  n      |-> Some(Len(vals))]]]

\* The snapshots of one set in date order.
RECURSIVE OrderByDate(_)
OrderByDate(S) ==
    IF S = {} THEN <<>>
    ELSE LET x == CHOOSE y \in S : \A z \in S : y.date <= z.date
         IN <<x>> \o OrderByDate(S \ {x})

TrajectoryNames ==
    {"discount_at_retirement", "price_momentum_90d", "price_volatility_180d",
     "seller_count_at_retirement", "buy_box_is_amazon"}

\* np.polyfit(x, y, 1)[0] / y.mean() for x = 0, 1, .., m - 1.
Momentum(y) ==
    LET m   == Len(y)
        sx  == SumSeq([i \in 1..m |-> i - 1])
        sxx == SumSeq([i \in 1..m |-> (i - 1) * (i - 1)])
        sxy == SumSeq([i \in 1..m |-> (i - 1) * y[i]])
        sy  == SumSeq(y)
    IN IF sy > 0
       THEN RoundDiv(10000 * m * (m * sxy - sx * sy), (m * sxx - sx * sx) * sy)
       ELSE 0

\* Series.std() / Series.mean(), in thousandths.
Volatility(y) ==
    LET m  == Len(y)
        sy == SumSeq(y)
        vn == m * SumSeq([i \in 1..m |-> y[i] * y[i]]) - sy * sy
    IN IF sy > 0 THEN Isqrt((1000000 * vn * m) \div ((m - 1) * sy * sy)) ELSE 0

\* The trajectory features of one set from its snapshots (all NaN when it
\* has none).  A buy-box winner is a name of the model: "Amazon" or another.
TrajectoryOf(ps, set_num, rrp) ==
    LET group == OrderByDate({s \in ps : s.set_num = set_num})
        prices == [i \in DOMAIN group |-> group[i].price_gbp]
        last == group[Len(group)]
        recent(days) == SelectSeq(group, LAMBDA s : s.date >= last.date - days)
        recent_90 == [i \in DOMAIN recent(90) |-> recent(90)[i].price_gbp]
        recent_180 == [i \in DOMAIN recent(180) |-> recent(180)[i].price_gbp]
        seller_counts == SelectSeq(group, LAMBDA s : NotNull(s.seller_count))
        buy_box == SelectSeq(group, LAMBDA s : NotNull(s.buy_box_winner))
    IN IF group = <<>>
       THEN [k \in TrajectoryNames |-> NaN]
       ELSE [discount_at_retirement |->
                 IF IsValue(rrp) /\ rrp[1] > 0
                 THEN Some(RoundDiv((rrp[1] - prices[Len(prices)]) * 10000, rrp[1]))
                 ELSE NaN,
             price_momentum_90d |->
                 IF Len(recent_90) >= 2 THEN Some(Momentum(recent_90)) ELSE NaN,
             price_volatility_180d |->
                 IF Len(recent_180) >= 2 THEN Some(Volatility(recent_180)) ELSE NaN,
             seller_count_at_retirement |->
                 IF seller_counts # <<>>
                 THEN Some(seller_counts[Len(seller_counts)].seller_count[1])
                 ELSE NaN,
             buy_box_is_amazon |->
                 IF buy_box # <<>>
                 THEN Some(IF buy_box[Len(buy_box)].buy_box_winner[1] = "Amazon"
                           THEN 1 ELSE 0)
                 ELSE NaN]

\* As compute_active_trajectory_features, but a set without snapshots gets
\* zeros in place of NaN.
TrajectoryZeroFilled(ps, set_numbers, rrp_series) ==
    [i \in DOMAIN set_numbers |->
        IF {s \in ps : s.set_num = set_numbers[i]} = {}
        THEN [k \in TrajectoryNames |-> Some(0)]
        ELSE TrajectoryOf(ps, set_numbers[i], rrp_series[i])]

\* compute_active_trajectory_features(set_numbers, rrp_series), reading ps.
compute_active_trajectory_features(ps, set_numbers, rrp_series) ==
    [i \in DOMAIN set_numbers |-> TrajectoryOf(ps, set_numbers[i], rrp_series[i])]

\* build_features_for_scoring(df, theme_stats): of its columns, the piece
\* count, the RRP, the five trajectory features and the theme features.
build_features_for_scoring(ps, df, theme_stats) ==
    LET rrp_gbp == [i \in DOMAIN df |-> df[i].uk_retail_price]
        traj == compute_active_trajectory_features(
                    ps, [i \in DOMAIN df |-> df[i].set_number], rrp_gbp)
    IN [i \in DOMAIN df |->
          [piece_count |-> IF NotNull(df[i].pieces) THEN df[i].pieces ELSE NaN,
           rrp_gbp     |-> rrp_gbp[i],
           trajectory  |-> traj[i],
           theme       |->
              [h \in HorizonSet |->
                  IF NotNull(df[i].theme) /\ df[i].theme[1] \in DOMAIN theme_stats[h]
                  THEN theme_stats[h][df[i].theme[1]]
                  ELSE [mean |-> NaN, median |-> NaN, std |-> NaN, n |-> NaN]]]]

\* get_feature_cols(horizon): the columns of the model, the theme ones being
\* those of the horizon.
FeatureColumns ==
    <<"rrp_gbp", "discount_at_retirement", "theme_mean_log", "theme_median_log",
      "theme_std_log", "theme_sample_size">>

\* The value of a column of the live feature matrix, for the model of a
\* horizon; NaN for a column the matrix does not have.
LiveColumnValue(feature_row, c, h) ==
    CASE c = "rrp_gbp"          -> feature_row.rrp_gbp
      [] c = "piece_count"      -> feature_row.piece_count
      [] c \in TrajectoryNames  -> feature_row.trajectory[c]
      [] c = "theme_mean_log"   -> feature_row.theme[h].mean
      [] c = "theme_median_log" -> feature_row.theme[h].median
      [] c = "theme_std_log"    -> feature_row.theme[h].std
      [] c = "theme_sample_size" -> feature_row.theme[h].n
      [] OTHER                  -> NaN

\* The feature list a horizon's features.json holds: the columns the trainer
\* fitted, in their order.
PersistedFeatures(h) == FeatureColumns

\* X of score_sets for one row and one horizon, as handed to predict: the
\* columns of the persisted list in order, a missing column added as NaN,
\* then X.fillna(0).
predict_input(feature_row, h) ==
    [k \in DOMAIN PersistedFeatures(h) |->
        LET v == LiveColumnValue(feature_row, PersistedFeatures(h)[k], h)
        IN IF IsValue(v) THEN v ELSE Some(0)]

\* compute_confidence(p25, p75), rounded to 4 places.
compute_confidence(p25, p75) ==
    IF IsValue(p25) /\ IsValue(p75)
    THEN Some(RoundDiv(10000000, 1000 + Abs(p75[1] - p25[1])))
    ELSE NaN

\* The names of the five prediction fields of a horizon.
PredField ==
    [h \in HorizonSet |->
        CASE h = "6m" ->
               [appreciation |-> "predicted_6m_appreciation",
                price |-> "predicted_6m_price_gbp", p25 |-> "pred_6m_p25",
                p75 |-> "pred_6m_p75", confidence |-> "confidence_6m"]
          [] h = "1yr" ->
               [appreciation |-> "predicted_1yr_appreciation",
                price |-> "predicted_1yr_price_gbp", p25 |-> "pred_1yr_p25",
                p75 |-> "pred_1yr_p75", confidence |-> "confidence_1yr"]
          [] h = "2yr" ->
               [appreciation |-> "predicted_2yr_appreciation",
                price |-> "predicted_2yr_price_gbp", p25 |-> "pred_2yr_p25",
                p75 |-> "pred_2yr_p75", confidence |-> "confidence_2yr"]
          [] h = "3yr" ->
               [appreciation |-> "predicted_3yr_appreciation",
                price |-> "predicted_3yr_price_gbp", p25 |-> "pred_3yr_p25",
                p75 |-> "pred_3yr_p75", confidence |-> "confidence_3yr"]]

HorizonFields(h) ==
    {PredField[h].appreciation, PredField[h].price, PredField[h].p25,
     PredField[h].p75, PredField[h].confidence}

\* (math.exp(p_log) - 1) * 100, rounded to 2 places.
PctOf(p_log) == IF IsValue(p_log) THEN Some(Exp4(p_log[1]) - 10000) ELSE NaN

\* The five fields of one horizon from the outputs <<p25, p50, p75>> of its
\* three regressors.
HorizonPart(h, out, rrp) ==
    (PredField[h].appreciation :> PctOf(out[2]))
    @@ (PredField[h].price :>
            IF IsValue(out[2]) THEN Some(RoundDiv(rrp * Exp4(out[2][1]), 100)) ELSE NaN)
    @@ (PredField[h].p25 :> PctOf(out[1]))
    @@ (PredField[h].p75 :> PctOf(out[3]))
    @@ (PredField[h].confidence :> compute_confidence(out[1], out[3]))

RECURSIVE HorizonParts(_, _, _)
HorizonParts(models, outs, rrp) ==
    IF models = <<>> THEN <<>>
    ELSE HorizonPart(Head(models), outs[Head(models)], rrp)
         @@ HorizonParts(Tail(models), outs, rrp)

\* round(rrp * appreciation / 100, 2) when the appreciation field is there.
ExpectedProfit(pred, key, rrp) ==
    IF key \in DOMAIN pred
    THEN IF IsValue(pred[key]) THEN Some(RoundDiv(rrp * pred[key][1], 100)) ELSE NaN
    ELSE None

\* round(app_1yr * conf_1yr, 4) if app_1yr else 0
RiskAdjusted(pred) ==
    LET key == PredField["1yr"].appreciation IN
    IF key \notin DOMAIN pred THEN Some(0)
    ELSE IF pred[key] = Some(0) THEN Some(0)
    ELSE IF IsValue(pred[key]) /\ IsValue(pred[PredField["1yr"].confidence])
    THEN Some(RoundDiv(pred[key][1] * pred[PredField["1yr"].confidence][1], 100))
    ELSE NaN

\* The prediction of one row as the loop of score_sets leaves it.  The
\* trajectory diagnostics keep the values that are not NaN; the table
\* investment_model_runs holds no run, so both r2 fields are None.
RowPrediction(row, feature_row, models, outs) ==
    LET rrp == row.uk_retail_price[1]
        traj_features ==
            [k \in TrajectoryNames |->
                IF IsValue(feature_row.trajectory[k]) THEN feature_row.trajectory[k]
                ELSE None]
        scored == ("set_num" :> row.set_number)
                  @@ ("model_version" :> MODEL_VERSION)
                  @@ ("scored_at" :> "utcnow")
                  @@ ("features_used" :> traj_features)
                  @@ HorizonParts(models, outs, rrp)
    IN scored
       @@ ("expected_profit_1yr_gbp" :>
               ExpectedProfit(scored, PredField["1yr"].appreciation, rrp))
       @@ ("expected_profit_3yr_gbp" :>
               ExpectedProfit(scored, PredField["3yr"].appreciation, rrp))
       @@ ("risk_adjusted_score" :> RiskAdjusted(scored))
       @@ ("theme_sample_size_1yr" :> feature_row.theme["1yr"].n)
       @@ ("training_r2" :> None)
       @@ ("validation_r2" :> None)

\* Series.rank() without pct: the average ordinal rank, in ten-thousandths.
RankOrdinal(col, i) ==
    IF ~IsValue(col[i]) THEN NaN
    ELSE LET valid == {j \in DOMAIN col : IsValue(col[j])}
             less  == Cardinality({j \in valid : col[j][1] < col[i][1]})
             equal == Cardinality({j \in valid : col[j][1] = col[i][1]})
         IN Some(RoundDiv((2 * less + equal + 1) * 10000, 2))

\* Series.rank(pct=True): the average rank among the values that are not
\* NaN, divided by their number; NaN for a NaN.
RankPct(col, i) ==
    IF ~IsValue(col[i]) THEN NaN
    ELSE LET valid == {j \in DOMAIN col : IsValue(col[j])}
             less  == Cardinality({j \in valid : col[j][1] < col[i][1]})
             equal == Cardinality({j \in valid : col[j][1] = col[i][1]})
         IN Some(RoundDiv((2 * less + equal + 1) * 10000, 2 * Cardinality(valid)))

\* Series.fillna(0.5)
FillHalf(x) == IF IsValue(x) THEN x[1] ELSE 5000

\* SCORE_WEIGHTS, in hundredths.
SCORE_WEIGHTS ==
    [appreciation_1yr |-> 30, confidence_1yr |-> 25,
     expected_profit_1yr |-> 25, risk_adjusted |-> 20]

\* As Composite, with the risk-adjusted rank weighted like the appreciation rank.
CompositeOtherCoefficient(app_rank, conf_vals, profit_rank, risk_rank) ==
    SCORE_WEIGHTS.appreciation_1yr * app_rank
    + SCORE_WEIGHTS.confidence_1yr * conf_vals
    + SCORE_WEIGHTS.expected_profit_1yr * profit_rank
    + SCORE_WEIGHTS.appreciation_1yr * risk_rank

\* composite of score_sets (the weighted sum times 10), in hundred-thousandths.
Composite(app_rank, conf_vals, profit_rank, risk_rank) ==
    SCORE_WEIGHTS.appreciation_1yr * app_rank
    + SCORE_WEIGHTS.confidence_1yr * conf_vals
    + SCORE_WEIGHTS.expected_profit_1yr * profit_rank
    + SCORE_WEIGHTS.risk_adjusted * risk_rank

RiskFactorNames ==
    <<"high_rrp", "low_piece_count", "thin_theme_data", "negative_forecast",
      "high_uncertainty">>

\* assess_risk_factors(row, predictions): the factors raised, in order.
assess_risk_factors(row, predictions) ==
    LET rrp    == IF NotNull(row.uk_retail_price) THEN row.uk_retail_price[1] ELSE 0
        pieces == IF NotNull(row.pieces) THEN row.pieces[1] ELSE 0
        theme_n == IF "theme_sample_size_1yr" \in DOMAIN predictions
                   THEN predictions["theme_sample_size_1yr"] ELSE Some(0)
        key  == PredField["1yr"].appreciation
        ckey == PredField["1yr"].confidence
        Raised(f) ==
            CASE f = "high_rrp" -> rrp > 200
              [] f = "low_piece_count" -> pieces < 100 /\ rrp > 30
              [] f = "thin_theme_data" ->
                    IsValue(theme_n) /\ theme_n[1] # 0 /\ theme_n[1] < 5
              [] f = "negative_forecast" ->
                    key \in DOMAIN predictions /\ IsValue(predictions[key])
                    /\ predictions[key][1] < 0
              [] f = "high_uncertainty" ->
                    ckey \in DOMAIN predictions /\ IsValue(predictions[ckey])
                    /\ predictions[ckey][1] < 3000
    IN SelectSeq(RiskFactorNames, Raised)

\* score_sets(df, features, models) for the outputs outs[i][h] of the
\* regressors of horizon h on row i.
score_sets(df, features, models, outs) ==
    LET predictions == [i \in DOMAIN df |->
                           RowPrediction(df[i], features[i], models, outs[i])]
        key == PredField["1yr"].appreciation
        Col(k) == [i \in DOMAIN predictions |-> predictions[i][k]]
    IN IF predictions # <<>> /\ key \in DOMAIN predictions[1]
       THEN [i \in DOMAIN predictions |->
               LET composite ==
                       Composite(FillHalf(RankPct(Col(key), i)),
                                 FillHalf(predictions[i][PredField["1yr"].confidence]),
                                 FillHalf(RankPct(Col("expected_profit_1yr_gbp"), i)),
                                 FillHalf(RankPct(Col("risk_adjusted_score"), i)))
                   pred == ("investment_score" :> Some(RoundDiv(composite, 1000)))
                           @@ predictions[i]
                   full == ("risk_factors" :> assess_risk_factors(df[i], pred)) @@ pred
               IN [k \in DOMAIN full \ {"theme_sample_size_1yr"} |-> full[k]]]
       ELSE predictions

\* The fields of a prediction that hold floats.
FloatFields ==
    UNION {HorizonFields(h) : h \in HorizonSet}
    \cup {"expected_profit_1yr_gbp", "expected_profit_3yr_gbp", "risk_adjusted_score",
          "theme_sample_size_1yr", "investment_score"}

\* upsert_predictions(predictions): NaN becomes null; the columns sent
\* replace the stored ones, on conflict of set_num.
upsert_predictions(table, predictions) ==
    LET clean == [i \in DOMAIN predictions |->
                    [k \in DOMAIN predictions[i] |->
                        IF k \in FloatFields /\ predictions[i][k] = NaN THEN None
                        ELSE predictions[i][k]]]
        nums  == {clean[i]["set_num"] : i \in DOMAIN clean}
        Last(n) == clean[CHOOSE i \in DOMAIN clean :
                            /\ clean[i]["set_num"] = n
                            /\ \A j \in DOMAIN clean : clean[j]["set_num"] = n => j <= i]
    IN [n \in DOMAIN table \cup nums |->
          IF n \notin nums THEN table[n]
          ELSE IF n \in DOMAIN table
          THEN [k \in DOMAIN table[n] \cup DOMAIN Last(n) |->
                  IF k \in DOMAIN Last(n) THEN Last(n)[k] ELSE table[n][k]]
          ELSE Last(n)]

\* What the three 1yr regressors can return for a row, as <<p25, p50, p75>>:
\* log returns (ordered, equal or crossing), or NaN.
Outputs ==
    {<<Some(0), Some(405), Some(693)>>,
     <<Some(0 - 693), Some(0 - 693), Some(0 - 693)>>,
     <<Some(693), Some(693), Some(693)>>,
     <<Some(693), Some(0), Some(0 - 693)>>,
     <<NaN, NaN, NaN>>}

\* What the regressors of the other horizons return.
OtherOutput == <<Some(0), Some(405), Some(693)>>

NoRun ==
    [status |-> "none", models |-> <<>>, df |-> <<>>, features |-> <<>>, X |-> <<>>,
     predictions |-> <<>>, summary |-> ("scored" :> 0), log |-> <<>>]

Logged(what, count) == [what |-> what, count |-> count]

\* score_sets.run() over the model files and the tables, for the outputs
\* out1yr[i] of the 1yr regressors on row i: what the run leaves behind
\* (run) and the table investment_predictions after it (table).
run(files, bs, ps, training, stored, out1yr) ==
    LET models == load_models(files)
        df     == fetch_active_sets(bs)
        loaded == <<Logged("loaded_models", Len(models))>>
        found  == <<Logged("active_retiring_soon", Len(ActiveRows(bs))),
                    Logged("recently_retired", Len(RecentlyRetiredRows(bs))),
                    Logged("found_total", Len(df))>>
        theme_stats == fetch_theme_stats(training, bs)
        features == build_features_for_scoring(ps, df, theme_stats)
        outs == [i \in DOMAIN df |->
                   [h \in HorizonSet |-> IF h = "1yr" THEN out1yr[i] ELSE OtherOutput]]
        predictions == score_sets(df, features, models, outs)
    IN IF models = <<>>
       THEN [run |-> [NoRun EXCEPT !.status = "returned",
                                   !.log = loaded \o <<Logged("no_models", 0)>>],
             table |-> stored]
       ELSE IF df = <<>>
       THEN [run |-> [NoRun EXCEPT !.status = "returned", !.models = models,
                         !.log = loaded \o found \o <<Logged("no_active_sets", 0)>>],
             table |-> stored]
       ELSE IF ThemeStatsFrame(training) = {}
       THEN \* train_df["set_num"] of an empty frame raises KeyError
            [run |-> [NoRun EXCEPT !.status = "raised", !.models = models,
                                   !.df = df, !.log = loaded \o found],
             table |-> stored]
       ELSE [run |-> [status |-> "returned", models |-> models, df |-> df,
                      features |-> features, predictions |-> predictions,
                      X |-> [i \in DOMAIN df |->
                               [h \in Range(models) |-> predict_input(features[i], h)]],
                      summary |-> ("scored" :> Len(predictions))
                                  @@ ("horizons" :> models)
                                  @@ ("model_version" :> MODEL_VERSION),
                      log |-> loaded \o found
                              \o <<Logged("upserting", Len(predictions)),
                                   Logged("upserted", Len(predictions))>>],
             table |-> upsert_predictions(stored, predictions)]

\* A scoring run, for any outputs of the 1yr regressors on the fetched rows.
ScoreRun ==
    /\ \E out1yr \in [1..Len(fetch_active_sets(brickset_sets)) -> Outputs] :
          \E r \in {run(model_files, brickset_sets, price_snapshots,
                        investment_training_data, investment_predictions, out1yr)} :
              /\ score_run' = r.run
              /\ investment_predictions' = r.table
    /\ UNCHANGED <<model_files, otherThanScore>>

----------------------------------------------------------------------------
(* validate_model.py: the portfolio backtest.                              *)

CV_FOLDS ==
    <<[train_end |-> 2018, val |-> 2019, test |-> 2020],
      [train_end |-> 2019, val |-> 2020, test |-> 2021],
      [train_end |-> 2020, val |-> 2021, test |-> 2022],
      [train_end |-> 2021, val |-> 2022, test |-> 2023],
      [train_end |-> 2022, val |-> 2023, test |-> 2024]>>

TOP_N == 20

\* What the fold's regressors return for the test rows: row i gets the
\* output at place i + shift of a fixed round of outputs.
OutputRound ==
    <<<<Some(0), Some(405), Some(693)>>,
      <<Some(0 - 693), Some(0 - 693), Some(0 - 693)>>,
      <<Some(693), Some(693), Some(693)>>,
      <<Some(0), Some(0), Some(0)>>,
      <<Some(693), Some(0), Some(0 - 693)>>>>

\* investment_score of the backtest (the weighted sum times 10, unrounded),
\* in hundred-thousandths.
BacktestComposite(app_rank, conf_vals, profit_rank, risk_rank) ==
    SCORE_WEIGHTS.appreciation_1yr * app_rank
    + SCORE_WEIGHTS.confidence_1yr * conf_vals
    + SCORE_WEIGHTS.expected_profit_1yr * profit_rank
    + SCORE_WEIGHTS.risk_adjusted * risk_rank

\* test_df of one fold with its predictions and investment_score.
ScoredTestFrame(test_rows, shift) ==
    LET out(i) == OutputRound[((i + shift) % Len(OutputRound)) + 1]
        base == [i \in DOMAIN test_rows |->
                    LET rrp   == IF IsValue(test_rows[i].rrp_gbp)
                                 THEN test_rows[i].rrp_gbp[1] ELSE 30
                        app   == PctOf(out(i)[2])
                        conf  == compute_confidence(out(i)[1], out(i)[3])
                    IN [pred_appreciation |-> app,
                        pred_profit   |-> Some(RoundDiv(rrp * app[1], 100)),
                        confidence    |-> conf,
                        risk_adjusted |-> Some(RoundDiv(app[1] * conf[1], 100))]]
        Col(k) == [i \in DOMAIN base |-> base[i][k]]
    IN [i \in DOMAIN base |->
          [pred_appreciation |-> base[i].pred_appreciation,
           pred_profit   |-> base[i].pred_profit,
           confidence    |-> base[i].confidence,
           risk_adjusted |-> base[i].risk_adjusted,
           investment_score |->
               BacktestComposite(FillHalf(RankPct(Col("pred_appreciation"), i)),
                                 FillHalf(base[i].confidence),
                                 FillHalf(RankPct(Col("pred_profit"), i)),
                                 FillHalf(RankPct(Col("risk_adjusted"), i)))]]

\* One fold of run_portfolio_backtest over the frame hdf: nothing when the
\* fold is skipped, else the scored test frame and the size of the top and
\* bottom groups (the fold is dropped when that size is under 5).
BacktestFold(hdf, fold, shift) ==
    LET train == SelectSeq(hdf, LAMBDA r : r.retirement_year <= fold.train_end)
        test  == SelectSeq(hdf, LAMBDA r : r.retirement_year = fold.test)
        actual_top_n == Min2(TOP_N, Len(test) \div 3)
    IN IF Len(train) < 30 \/ Len(test) < 10 THEN <<>>
       ELSE <<[train_end |-> fold.train_end, test |-> fold.test,
               test_df |-> ScoredTestFrame(test, shift),
               actual_top_n |-> actual_top_n,
               evaluated |-> actual_top_n >= 5]>>

RECURSIVE BacktestFolds(_, _, _)
BacktestFolds(hdf, folds, shift) ==
    IF folds = <<>> THEN <<>>
    ELSE BacktestFold(hdf, Head(folds), shift) \o BacktestFolds(hdf, Tail(folds), shift)

\* run_portfolio_backtest(df, top_n) up to the scoring of each fold's test
\* rows (the realised returns of the groups are not part of the model).
PortfolioBacktest ==
    /\ backtest_run.hdf # <<>>
    /\ \E shift \in 0..1 :
          backtest_run' = [backtest_run EXCEPT
                              !.folds = BacktestFolds(backtest_run.hdf, CV_FOLDS, shift)]
    /\ UNCHANGED otherThanBacktest

----------------------------------------------------------------------------
(* train_models.py                                                         *)
(*                                                                         *)
(* A regressor is known by what was handed to lgb.train: the feature       *)
(* matrix, the targets, the sample weights.  The feature columns of the    *)
(* model are rrp_gbp, discount_at_retirement and the four theme features   *)
(* of the horizon.  A training run is a process: it writes one file per    *)
(* step and can be killed between two steps.                               *)

\* First day of each year 2012..2025 in the model's calendar.
YearStarts ==
    <<0, 366, 731, 1096, 1461, 1827, 2192, 2557, 2922, 3288, 3653, 4018, 4383, 4749>>

\* df["exit_date"].dt.year
YearOf(day) == 2011 + Cardinality({i \in DOMAIN YearStarts : YearStarts[i] <= day})

RECENCY_WEIGHT_YEAR == 2020
RECENCY_WEIGHT_MULTIPLIER == 2
MIN_HORIZON_ROWS == 50
MIN_FOLD_TRAIN == 30
MIN_FOLD_VAL == 5
FINAL_TRAIN_END == 2023
FINAL_TEST_START == 2024

\* The value of a feature column of a loaded row, for a horizon.
ColumnValue(row, c, h) ==
    CASE c = "rrp_gbp"                -> Some(row.rrp_gbp)
      [] c = "discount_at_retirement" -> row.features.discount_at_retirement
      [] c = "theme_mean_log"         -> row.features.theme[h].mean
      [] c = "theme_median_log"       -> row.features.theme[h].median
      [] c = "theme_std_log"          -> row.features.theme[h].std
      [] c = "theme_sample_size"      -> Some(row.features.theme[h].n)

\* The rows a query for good/partial rows with features returns, ordered by
\* exit_date, with retirement_year added and the features expanded.
FeaturedRows(table) ==
    LET rows == OrderTraining({table[n] : n \in DOMAIN table})
        kept == SelectSeq(rows, LAMBDA r : /\ r.data_quality \in {"good", "partial"}
                                           /\ NotNull(r.features))
    IN [i \in DOMAIN kept |->
          [set_num         |-> kept[i].set_num,
           retirement_year |-> YearOf(kept[i].exit_date),
           rrp_gbp         |-> kept[i].rrp_gbp,
           target          |-> kept[i].target,
           features        |-> kept[i].features[1]]]

\* load_training_data()
load_training_data(table) == FeaturedRows(table)

\* compute_sample_weights(df)
compute_sample_weights(df) ==
    [i \in DOMAIN df |->
        IF df[i].retirement_year >= RECENCY_WEIGHT_YEAR
        THEN RECENCY_WEIGHT_MULTIPLIER ELSE 1]

\* X[col].median() over the rows of a frame: NaN when no row has a value.
ColumnMedian(rows, c, h) ==
    LET vals == SelectSeq([i \in DOMAIN rows |-> ColumnValue(rows[i], c, h)],
                          LAMBDA v : IsValue(v))
    IN IF vals = <<>> THEN NaN
       ELSE Some(Median([i \in DOMAIN vals |-> vals[i][1]]))

\* The feature matrix of `rows` with every missing value filled with the
\* median of its column over the rows of `basis`; each matrix row keeps the
\* set_num of its row.
Imputed(rows, basis, h) ==
    LET cols == Range(FeatureColumns)
        med  == [c \in cols |-> ColumnMedian(basis, c, h)]
    IN [i \in DOMAIN rows |->
          [set_num |-> rows[i].set_num,
           x |-> [c \in cols |->
                    IF IsValue(ColumnValue(rows[i], c, h))
                    THEN ColumnValue(rows[i], c, h) ELSE med[c]]]]

\* hdf: the rows with a defined target of the horizon.
HorizonFrame(df, h) == SelectSeq(df, LAMBDA r : NotNull(r.target[h]))

\* The positions of a frame whose retirement_year lies in lo..hi, in order.
YearsAt(hdf, lo, hi) ==
    SelectSeq([i \in DOMAIN hdf |-> i],
              LAMBDA i : lo <= hdf[i].retirement_year /\ hdf[i].retirement_year <= hi)

\* hdf["retirement_year"] <= fold["test"]
TrainMaskThroughTest(hdf, fold) == YearsAt(hdf, 0, fold.test)

\* train_mask = hdf["retirement_year"] <= fold["train_end"], as positions.
TrainMask(hdf, fold) == YearsAt(hdf, 0, fold.train_end)

\* The sets at the positions `at` of a frame, with their retirement years.
RowsAt(hdf, at) ==
    {[set_num |-> hdf[at[k]].set_num, retirement_year |-> hdf[at[k]].retirement_year] :
        k \in DOMAIN at}

\* What lgb.train is handed for the rows at positions `at` of hdf, X being
\* the feature matrix of hdf.
FitInputs(hdf, X, at, h) ==
    [X |-> [k \in DOMAIN at |-> X[at[k]]],
     y |-> [k \in DOMAIN at |-> hdf[at[k]].target[h][1]],
     weights |-> compute_sample_weights([k \in DOMAIN at |-> hdf[at[k]]])]

\* One fold of the hyperparameter search of train_for_horizon: nothing when
\* the fold is skipped, else what create_objective receives.
SearchFold(hdf, X, fold, h) ==
    LET train_at == YearsAt(hdf, 0, fold.train_end)
        val_at   == YearsAt(hdf, fold.val, fold.val)
    IN IF Len(train_at) < MIN_FOLD_TRAIN \/ Len(val_at) < MIN_FOLD_VAL THEN <<>>
       ELSE <<[train_end |-> fold.train_end, val |-> fold.val,
               train |-> FitInputs(hdf, X, train_at, h),
               X_val |-> [k \in DOMAIN val_at |-> X[val_at[k]]],
               y_val |-> [k \in DOMAIN val_at |-> hdf[val_at[k]].target[h][1]]]>>

RECURSIVE SearchFolds(_, _, _, _)
SearchFolds(hdf, X, folds, h) ==
    IF folds = <<>> THEN <<>>
    ELSE SearchFold(hdf, X, Head(folds), h) \o SearchFolds(hdf, X, Tail(folds), h)

\* train_for_horizon without its check of the sample count.
TrainWithoutSampleCheck(df, h) ==
    LET hdf      == HorizonFrame(df, h)
        X        == Imputed(hdf, hdf, h)
        search   == SearchFolds(hdf, X, CV_FOLDS, h)
        final_at == YearsAt(hdf, 0, FINAL_TRAIN_END)
    IN IF search = <<>>
       THEN [trained |-> FALSE, reason |-> "no_valid_fold", samples |-> Len(hdf),
             search |-> <<>>, fit |-> <<>>, training_rows |-> 0]
       ELSE [trained |-> TRUE, reason |-> "", samples |-> Len(hdf),
             search |-> search, fit |-> <<FitInputs(hdf, X, final_at, h)>>,
             training_rows |-> Len(final_at)]

\* train_for_horizon(df, horizon) up to the fits: whether the horizon is
\* trained, why not, what the search and the three final fits are handed,
\* and the number of final training rows.
train_for_horizon(df, h) ==
    LET hdf      == HorizonFrame(df, h)
        X        == Imputed(hdf, hdf, h)
        search   == SearchFolds(hdf, X, CV_FOLDS, h)
        final_at == YearsAt(hdf, 0, FINAL_TRAIN_END)
        skipped(reason) ==
            [trained |-> FALSE, reason |-> reason, samples |-> Len(hdf),
             search |-> <<>>, fit |-> <<>>, training_rows |-> 0]
    IN IF Len(hdf) < MIN_HORIZON_ROWS THEN skipped("too_few_samples")
       ELSE IF search = <<>> THEN skipped("no_valid_fold")
       ELSE [trained |-> TRUE, reason |-> "", samples |-> Len(hdf),
             search |-> search, fit |-> <<FitInputs(hdf, X, final_at, h)>>,
             training_rows |-> Len(final_at)]

\* What run() and the log keep of a call of train_for_horizon.
Outcome(d) ==
    [trained |-> d.trained, reason |-> d.reason, samples |-> d.samples,
     training_rows |-> d.training_rows]

\* The hyperparameters a study can end with (num_leaves of its best trial).
BestParams == {15, 63}

\* The record train_for_horizon inserts into investment_model_runs.
run_record(h, best_params, decision) ==
    [model_version |-> MODEL_VERSION, horizon |-> h, algorithm |-> "lightgbm",
     hyperparams |-> best_params, training_rows |-> decision.training_rows]

\* The trainer before its first run.
NoTraining ==
    [status |-> "idle", runs |-> 0, df |-> <<>>, h |-> 1, pc |-> "horizon",
     best_params |-> 0, decisions |-> <<>>, results |-> <<>>,
     summary |-> [models_trained |-> 0, results |-> <<>>], persisted |-> <<>>]

\* What the trainer leaves alone.
otherThanTrain ==
    <<storeVars, winsorVars, investment_predictions, score_run, backtestVars,
      pipelineVars, validationVars, payloadVars, loopVars>>

MaxTrainRuns == 2

\* run(): load the training data.  An empty result has no exit_date column,
\* and load_training_data raises KeyError.
TrainStart ==
    /\ train_run.status # "running"
    /\ train_run.runs < MaxTrainRuns
    /\ \E df \in {load_training_data(investment_training_data)} :
          train_run' = [train_run EXCEPT
                           !.status = IF df = <<>> THEN "raised" ELSE "running",
                           !.runs = @ + 1, !.df = df, !.h = 1, !.pc = "horizon",
                           !.decisions = <<>>, !.results = <<>>,
                           !.summary = [models_trained |-> 0, results |-> <<>>]]
    /\ UNCHANGED <<investment_model_runs, artifact_origin, model_files, otherThanTrain>>

\* train_for_horizon up to the end of the search: return {} for a horizon
\* with too few samples or without a valid fold, else go on to the fits.
TrainHorizon ==
    /\ train_run.status = "running" /\ train_run.pc = "horizon"
    /\ train_run.h <= Len(HORIZONS)
    /\ \E d \in {Outcome(train_for_horizon(train_run.df, HORIZONS[train_run.h]))} :
          \E best \in (IF d.trained THEN BestParams ELSE {0}) :
              train_run' = [train_run EXCEPT
                               !.decisions = Append(@, d),
                               !.h = IF d.trained THEN @ ELSE @ + 1,
                               !.pc = IF d.trained THEN "p25" ELSE "horizon",
                               !.best_params = best]
    /\ UNCHANGED <<investment_model_runs, artifact_origin, model_files, otherThanTrain>>

\* The file of MODELS_DIR written at a position of train_for_horizon.
FileAt(h, pc) == <<HORIZONS[h], pc>>

\* One file of MODELS_DIR opened for writing and written by the run numbered
\* k: it replaces the file of the same name.
Written(origin, f, k) ==
    [g \in DOMAIN origin \cup {f} |-> IF g = f THEN k ELSE origin[g]]

\* pickle.dump of one quantile model, after its fit.
TrainWriteModel ==
    /\ train_run.status = "running" /\ train_run.pc \in Range(QUANTILES)
    /\ model_files' = model_files \cup {FileAt(train_run.h, train_run.pc)}
    /\ artifact_origin' =
          Written(artifact_origin, FileAt(train_run.h, train_run.pc), train_run.runs)
    /\ train_run' = [train_run EXCEPT
                        !.pc = CASE @ = "p25" -> "p50" [] @ = "p50" -> "p75"
                                 [] @ = "p75" -> "features"]
    /\ UNCHANGED <<investment_model_runs, otherThanTrain>>

\* json.dump of the feature list.
TrainWriteFeatures ==
    /\ train_run.status = "running" /\ train_run.pc = "features"
    /\ model_files' = model_files \cup {FileAt(train_run.h, "features")}
    /\ artifact_origin' =
          Written(artifact_origin, FileAt(train_run.h, "features"), train_run.runs)
    /\ train_run' = [train_run EXCEPT !.pc = "insert"]
    /\ UNCHANGED <<investment_model_runs, otherThanTrain>>

\* insert(run_record), and the return of train_for_horizon to run().
TrainInsertRun ==
    /\ train_run.status = "running" /\ train_run.pc = "insert"
    /\ investment_model_runs' =
          Append(investment_model_runs,
                 run_record(HORIZONS[train_run.h], train_run.best_params,
                            train_run.decisions[train_run.h]))
    /\ train_run' = [train_run EXCEPT
                        !.results = Append(@, HORIZONS[train_run.h]),
                        !.h = @ + 1, !.pc = "horizon"]
    /\ UNCHANGED <<artifact_origin, model_files, otherThanTrain>>

\* The end of run(): models_trained counts the results.  `persisted` keeps
\* what each completed run left in the store.
TrainReturn ==
    /\ train_run.status = "running" /\ train_run.pc = "horizon"
    /\ train_run.h > Len(HORIZONS)
    /\ train_run' = [train_run EXCEPT
                        !.status = "returned",
                        !.summary = [models_trained |-> Len(train_run.results),
                                     results |-> train_run.results],
                        !.persisted = Append(@, [files |-> model_files,
                                                 model_runs |-> investment_model_runs])]
    /\ UNCHANGED <<investment_model_runs, artifact_origin, model_files, otherThanTrain>>

\* The training process is killed between two of its steps.
TrainInterrupt ==
    /\ train_run.status = "running"
    /\ train_run' = [train_run EXCEPT !.status = "killed"]
    /\ UNCHANGED <<investment_model_runs, artifact_origin, model_files, otherThanTrain>>


----------------------------------------------------------------------------
(* validate_model.py: main() and what the three protocols fit.             *)

\* prepare_features(df, feature_cols): the feature matrix of the rows it is
\* given, every missing value filled with the median of its column over
\* those rows.
prepare_features(rows, h) == Imputed(rows, rows, h)

\* compute_sample_weights(retirement_years) of the validator.
ValidatorWeights(retirement_years) ==
    [i \in DOMAIN retirement_years |->
        IF retirement_years[i] >= RECENCY_WEIGHT_YEAR
        THEN RECENCY_WEIGHT_MULTIPLIER ELSE 1]

Protocols == <<"backtest", "calibration", "baseline">>

\* The least number of test rows of a fold a protocol evaluates.
MinTestRows(protocol) == IF protocol = "calibration" THEN 5 ELSE 10

\* The horizons and the quantiles a protocol fits.
ProtocolHorizons(protocol) == IF protocol = "calibration" THEN HORIZONS ELSE <<"1yr">>
ProtocolQuantiles(protocol) == IF protocol = "baseline" THEN <<"p50">> ELSE QUANTILES

\* The models lgb.train returns in one fold of a protocol.
FoldFits(protocol, fold) ==
    {[quantile |-> q, fit_in |-> <<protocol, fold.train_end, fold.test>>] :
        q \in Range(ProtocolQuantiles(protocol))}

\* Models unpickled from MODELS_DIR.
ModelsLoaded(protocol, fold) ==
    {[quantile |-> q, fit_in |-> <<"MODELS_DIR">>] :
        q \in Range(ProtocolQuantiles(protocol))}

\* The models whose predict() a fold of a protocol calls: those of its own
\* fold_models (or its own p50 model).
ModelsUsed(protocol, fold) ==
    {[quantile |-> q, fit_in |-> <<protocol, fold.train_end, fold.test>>] :
        q \in Range(ProtocolQuantiles(protocol))}

\* One fold of a protocol over the frame hdf of a horizon: nothing when the
\* fold is skipped, else what lgb.train is handed and the models involved.
ProtocolFold(hdf, fold, h, protocol) ==
    LET train_at   == TrainMask(hdf, fold)
        test_at    == YearsAt(hdf, fold.test, fold.test)
        train_rows == [k \in DOMAIN train_at |-> hdf[train_at[k]]]
        test_rows  == [k \in DOMAIN test_at |-> hdf[test_at[k]]]
    IN IF Len(train_at) < 30 \/ Len(test_at) < MinTestRows(protocol) THEN <<>>
       ELSE <<[horizon |-> h, train_end |-> fold.train_end, val |-> fold.val,
               test |-> fold.test,
               fit_on |-> RowsAt(hdf, train_at),
               evaluated_on |-> RowsAt(hdf, test_at),
               train |-> [X |-> prepare_features(train_rows, h),
                          y |-> [k \in DOMAIN train_rows |-> train_rows[k].target[h][1]],
                          weights |-> ValidatorWeights(
                              [k \in DOMAIN train_rows |-> train_rows[k].retirement_year])],
               X_test |-> prepare_features(test_rows, h),
               fitted |-> FoldFits(protocol, fold),
               predicted_with |-> ModelsUsed(protocol, fold)]>>

RECURSIVE ProtocolFolds(_, _, _, _)
ProtocolFolds(hdf, folds, h, protocol) ==
    IF folds = <<>> THEN <<>>
    ELSE ProtocolFold(hdf, Head(folds), h, protocol)
         \o ProtocolFolds(hdf, Tail(folds), h, protocol)

\* The folds a protocol evaluates for one horizon; calibration skips a
\* horizon with fewer than 50 rows.
HorizonFolds(df, h, protocol) ==
    LET hdf == HorizonFrame(df, h)
    IN IF protocol = "calibration" /\ Len(hdf) < 50 THEN <<>>
       ELSE ProtocolFolds(hdf, CV_FOLDS, h, protocol)

RECURSIVE ProtocolRun(_, _, _)
ProtocolRun(df, horizons, protocol) ==
    IF horizons = <<>> THEN <<>>
    ELSE HorizonFolds(df, Head(horizons), protocol)
         \o ProtocolRun(df, Tail(horizons), protocol)

\* What the run keeps of a fold.
FoldOutcome(f) ==
    [horizon |-> f.horizon, train_end |-> f.train_end, test |-> f.test,
     n_train |-> Len(f.train.y), fit_on |-> f.fit_on,
     evaluated_on |-> f.evaluated_on, fitted |-> f.fitted,
     predicted_with |-> f.predicted_with]

\* The tables load_full_training_data queries.
StoresLoaded == {"investment_training_data", "brickset_sets"}

\* The file of RESULTS_DIR a protocol writes.
ResultsFile(protocol) ==
    CASE protocol = "backtest"    -> "validation_results/backtest_results.json"
      [] protocol = "calibration" -> "validation_results/calibration_results.json"
      [] protocol = "baseline"    -> "validation_results/baseline_comparison_results.json"

\* The validator before main().
NoValidation ==
    [status |-> "idle", df |-> <<>>, pending |-> <<>>, accessed |-> {},
     written |-> {}, protocols |-> <<>>]

otherThanValidation ==
    <<storeVars, winsorVars, scoreVars, backtestVars, trainVars, pipelineVars,
      payloadVars, loopVars>>

\* main(): parse --test and load the training data; an empty result has no
\* exit_date column and the load raises.
ValidateStart ==
    /\ validation_run.status = "idle"
    /\ \E test \in Range(Protocols) \cup {"all"} :
          \E df \in {load_training_data(investment_training_data)} :
              validation_run' =
                  [validation_run EXCEPT
                      !.status = IF df = <<>> THEN "raised" ELSE "running",
                      !.df = df,
                      !.pending = IF test = "all" THEN Protocols ELSE <<test>>,
                      !.accessed = @ \cup StoresLoaded]
    /\ UNCHANGED otherThanValidation

\* One protocol of main(): its fits, and its results file.
ValidateProtocol(protocol) ==
    /\ validation_run.status = "running"
    /\ validation_run.pending # <<>>
    /\ Head(validation_run.pending) = protocol
    /\ \E folds \in {ProtocolRun(validation_run.df, ProtocolHorizons(protocol), protocol)} :
          validation_run' =
              [validation_run EXCEPT
                  !.pending = Tail(@),
                  !.written = @ \cup {ResultsFile(protocol)},
                  !.accessed = (@ \cup {ResultsFile(protocol)})
                                 \cup ({m.fit_in[1] : m \in
                                          UNION {folds[i].predicted_with : i \in DOMAIN folds}}
                                        \ Range(Protocols)),
                  !.protocols = Append(@, [protocol |-> protocol,
                                           folds |-> [i \in DOMAIN folds |->
                                                         FoldOutcome(folds[i])]])]
    /\ UNCHANGED otherThanValidation

\* run_portfolio_backtest(df), as far as its fits go (the ranking of the
\* test rows is PortfolioBacktest).
ValidateBacktest == ValidateProtocol("backtest")

\* run_quantile_calibration(df)
ValidateCalibration == ValidateProtocol("calibration")

\* run_baseline_comparison(df)
ValidateBaseline == ValidateProtocol("baseline")

\* The end of main(): the combined summary is written.
ValidateFinish ==
    /\ validation_run.status = "running"
    /\ validation_run.pending = <<>>
    /\ validation_run' =
          [validation_run EXCEPT
              !.status = "returned",
              !.written = @ \cup {"validation_results/validation_summary.json"},
              !.accessed = @ \cup {"validation_results/validation_summary.json"}]
    /\ UNCHANGED otherThanValidation

----------------------------------------------------------------------------
(* run_pipeline.py                                                         *)

STEPS == <<"build", "features", "train", "score">>

\* The orchestrator before main().
NoPipeline ==
    [mode |-> "none", steps_to_run |-> <<>>, attempted |-> <<>>, results |-> <<>>,
     status |-> "idle", exit_status |-> None]

\* The records of one upsert request (200 in the sources; here 2).
BATCH_SIZE == 2

\* records[i : i + batch_size] for i in range(0, len(records), batch_size)
Chunks(s, size) ==
    [b \in 1..((Len(s) + size - 1) \div size) |->
        SubSeq(s, (b - 1) * size + 1, Min2(b * size, Len(s)))]

\* The number of upsert requests a loop over n batches completes when the
\* store rejects the request numbered `fail` (0: none): the exception is not
\* caught in the loop, so no request follows the rejected one.
SentBatchesSkippingFailed(n, fail) == n

SentBatches(n, fail) == IF fail = 0 THEN n ELSE fail - 1

\* upsert_training_data(df) after its first n upsert requests.
RECURSIVE BuildUpserted(_, _, _)
BuildUpserted(table, batches, n) ==
    IF n = 0 THEN table
    ELSE UpsertBuildRows(BuildUpserted(table, batches, n - 1), batches[n])

\* The batches of upsert_training_data(df).
BuildBatches(df) ==
    Chunks(Deduped(SelectSeq(df, LAMBDA r : r.data_quality \in {"good", "partial"})),
           BATCH_SIZE)

\* The batches of update_features_in_db(df, features), as positions of df:
\* the first row of each set_num, 200 at a time and then the rest.
FeatureBatches(df) ==
    Chunks(SelectSeq([i \in DOMAIN df |-> i],
                     LAMBDA i : \A j \in 1..(i - 1) : df[j].set_num # df[i].set_num),
           BATCH_SIZE)

\* update_features_in_db(df, features) after its first n upsert requests.
RECURSIVE FeaturesUpserted(_, _, _, _, _)
FeaturesUpserted(table, df, features, batches, n) ==
    IF n = 0 THEN table
    ELSE UpdatedFeatures(FeaturesUpserted(table, df, features, batches, n - 1),
                         [k \in DOMAIN batches[n] |-> df[batches[n][k]]],
                         [k \in DOMAIN batches[n] |-> features[batches[n][k]]])

\* upsert_predictions(predictions) after its first n upsert requests.
RECURSIVE PredictionsUpserted(_, _, _)
PredictionsUpserted(table, batches, n) ==
    IF n = 0 THEN table
    ELSE upsert_predictions(PredictionsUpserted(table, batches, n - 1), batches[n])

\* train_models.run() on a loaded frame, for the hyperparameters `best` of
\* every search: the decisions, the trained horizons, the files written and
\* the records inserted.
TrainAll(df, best) ==
    LET decisions == [i \in DOMAIN HORIZONS |->
                         Outcome(train_for_horizon(df, HORIZONS[i]))]
        at == SelectSeq([i \in DOMAIN HORIZONS |-> i], LAMBDA i : decisions[i].trained)
    IN [decisions |-> decisions,
        results   |-> [k \in DOMAIN at |-> HORIZONS[at[k]]],
        files     |-> {HORIZONS[at[k]] : k \in DOMAIN at} \X ModelFileKinds,
        records   |-> [k \in DOMAIN at |->
                          run_record(HORIZONS[at[k]], best, decisions[at[k]])]]

\* The step the loop of main() is at.
CurrentStep(p) == p.steps_to_run[Len(p.attempted) + 1]

AtStep(step) ==
    /\ pipeline.status = "running"
    /\ Len(pipeline.attempted) < Len(pipeline.steps_to_run)
    /\ CurrentStep(pipeline) = step

\* main() goes on with the next step after a step that raised.
AfterStepContinuing(p, raised, batches, fail) ==
    [p EXCEPT !.attempted = Append(@, CurrentStep(p)),
              !.results = Append(@, [step |-> CurrentStep(p),
                                     status |-> IF raised THEN "error" ELSE "success",
                                     batches |-> batches, failed_batch |-> fail])]

\* main() after run_step(step) returned or raised: the status of the step is
\* recorded; on an exception a single step exits with status 1 and a full
\* run leaves the loop.
AfterStep(p, raised, batches, fail) ==
    [p EXCEPT !.attempted = Append(@, CurrentStep(p)),
              !.results = Append(@, [step |-> CurrentStep(p),
                                     status |-> IF raised THEN "error" ELSE "success",
                                     batches |-> batches, failed_batch |-> fail]),
              !.status = IF ~raised THEN @
                         ELSE IF p.mode = "single" THEN "exited" ELSE "halted",
              !.exit_status = IF raised /\ p.mode = "single" THEN Some(1) ELSE @]

\* main(): parse the arguments.
PipelineStart ==
    /\ pipeline.status = "idle"
    /\ \E step \in {None} \cup {Some(s) : s \in Range(STEPS)} :
          pipeline' = [mode |-> IF step = None THEN "full" ELSE "single",
                       steps_to_run |-> IF step = None THEN STEPS ELSE step,
                       attempted |-> <<>>, results |-> <<>>,
                       status |-> "running", exit_status |-> None]
    /\ UNCHANGED <<storeVars, winsorVars, scoreVars, backtestVars, trainVars,
                   validationVars, payloadVars, loopVars>>

\* run_step("build"): build_training_data.run(), the store rejecting the
\* upsert request numbered `fail`, if any.
PipelineBuild ==
    /\ AtStep("build")
    /\ \E batches \in {BuildBatches(TrainingRows(brickset_sets, price_snapshots))} :
          \E fail \in 0..Len(batches) :
              /\ investment_training_data' =
                    BuildUpserted(investment_training_data, batches,
                                  SentBatches(Len(batches), fail))
              /\ pipeline' = AfterStep(pipeline, fail # 0, Len(batches), fail)
    /\ UNCHANGED <<brickset_sets, price_snapshots, winsorVars, scoreVars, backtestVars,
                   trainVars, validationVars, payloadVars, loopVars>>

\* run_step("features"): engineer_features.run().
PipelineFeatures ==
    /\ AtStep("features")
    /\ \E df \in {fetch_training_sets(investment_training_data, brickset_sets)} :
          \E order \in sort_values(df),
             last \in SnapshotReads(price_snapshots, df, Len(df)) :
              \E features \in {build_feature_matrix(price_snapshots, df, order, last)},
                 batches \in {FeatureBatches(df)} :
                  \E fail \in 0..Len(batches) :
                      /\ investment_training_data' =
                            FeaturesUpserted(investment_training_data, df, features,
                                             batches, SentBatches(Len(batches), fail))
                      /\ pipeline' = AfterStep(pipeline, fail # 0, Len(batches), fail)
    /\ UNCHANGED <<brickset_sets, price_snapshots, winsorVars, scoreVars, backtestVars,
                   trainVars, validationVars, payloadVars, loopVars>>

\* run_step("train"): train_models.run(); load_training_data raises on an
\* empty result.
PipelineTrain ==
    /\ AtStep("train")
    /\ \E df \in {load_training_data(investment_training_data)}, best \in BestParams :
          \E t \in {TrainAll(df, best)} :
              /\ train_run' =
                    [train_run EXCEPT
                        !.status = IF df = <<>> THEN "raised" ELSE "returned",
                        !.runs = @ + 1, !.df = df, !.h = Len(HORIZONS) + 1,
                        !.pc = "horizon", !.best_params = best,
                        !.decisions = IF df = <<>> THEN <<>> ELSE t.decisions,
                        !.results = t.results,
                        !.summary = [models_trained |-> Len(t.results),
                                     results |-> t.results]]
              /\ model_files' = model_files \cup t.files
              /\ artifact_origin' =
                    [f \in model_files \cup t.files |->
                        IF f \in t.files THEN train_run.runs + 1 ELSE artifact_origin[f]]
              /\ investment_model_runs' = investment_model_runs \o t.records
              /\ pipeline' = AfterStep(pipeline, df = <<>>, 0, 0)
    /\ UNCHANGED <<storeVars, winsorVars, investment_predictions, score_run,
                   backtestVars, validationVars, payloadVars, loopVars>>

\* run_step("score"): score_sets.run(), every row getting the same outputs
\* of the 1yr regressors.
PipelineScore ==
    /\ AtStep("score")
    /\ \E out \in Outputs :
          \E r \in {run(model_files, brickset_sets, price_snapshots,
                        investment_training_data, investment_predictions,
                        [i \in 1..Len(fetch_active_sets(brickset_sets)) |-> out])} :
              \E batches \in {Chunks(r.run.predictions, BATCH_SIZE)} :
                  \E fail \in 0..Len(batches) :
                      /\ investment_predictions' =
                            PredictionsUpserted(investment_predictions, batches,
                                                SentBatches(Len(batches), fail))
                      /\ score_run' =
                            IF fail = 0 THEN r.run
                            ELSE [r.run EXCEPT !.status = "raised",
                                               !.summary = NoRun.summary,
                                               !.log = SubSeq(@, 1, Len(@) - 1)]
                      /\ pipeline' = AfterStep(pipeline,
                                               fail # 0 \/ r.run.status = "raised",
                                               Len(batches), fail)
    /\ UNCHANGED <<storeVars, winsorVars, model_files, backtestVars, trainVars,
                   validationVars, payloadVars, loopVars>>

\* main() after the loop: the statuses are logged and the results returned.
PipelineFinish ==
    /\ \/ pipeline.status = "halted"
       \/ /\ pipeline.status = "running"
          /\ Len(pipeline.attempted) = Len(pipeline.steps_to_run)
    /\ pipeline' = [pipeline EXCEPT !.status = "finished", !.exit_status = Some(0)]
    /\ UNCHANGED <<storeVars, winsorVars, scoreVars, backtestVars, trainVars,
                   validationVars, payloadVars, loopVars>>

----------------------------------------------------------------------------
(* The sanitizers of the three upserts.  A value is null or a number in    *)
(* one of its representations: a Python float, a numpy float64 (which is   *)
(* also an instance of float), another numpy floating, a numpy integer.    *)

Representations == {"float", "np.float64", "np.float32", "np.int64"}
NonFinite == {"nan", "inf", "-inf"}

Number(rep, kind, num) == <<[rep |-> rep, kind |-> kind, num |-> num]>>

IsFloat(v)      == v[1].rep \in {"float", "np.float64"}
IsNpFloating(v) == v[1].rep \in {"np.float64", "np.float32"}
IsNpInteger(v)  == v[1].rep = "np.int64"

\* float(v) and int(v)
AsFloat(v) == <<[v[1] EXCEPT !.rep = "float"]>>
AsInt(v)   == <<[v[1] EXCEPT !.rep = "int"]>>

\* clean_record of upsert_training_data, on one value.
clean_record(v) ==
    IF v = None THEN None
    ELSE IF IsFloat(v) /\ (v[1].kind = "nan" \/ v[1].kind \in {"inf", "-inf"}) THEN None
    ELSE IF IsNpInteger(v) THEN AsInt(v)
    ELSE IF IsNpFloating(v) THEN (IF v[1].kind = "nan" THEN None ELSE AsFloat(v))
    ELSE v

\* The cleaning of a feature value in update_features_in_db.
CleanFeature(v) ==
    IF v = None THEN None
    ELSE IF IsNpInteger(v) THEN AsInt(v)
    ELSE IF IsNpFloating(v) THEN (IF v[1].kind = "nan" THEN None ELSE AsFloat(v))
    ELSE IF IsFloat(v) /\ v[1].kind = "nan" THEN None
    ELSE v

\* The cleaning of a prediction value in upsert_predictions.
CleanPrediction(v) ==
    IF v = None THEN None
    ELSE IF IsFloat(v) /\ v[1].kind = "nan" THEN None
    ELSE IF IsNpInteger(v) THEN AsInt(v)
    ELSE IF IsNpFloating(v) THEN (IF v[1].kind = "nan" THEN None ELSE AsFloat(v))
    ELSE v

\* No record has been sanitized.
NoPayload == [by |-> "none", record |-> <<>>, payload |-> <<>>]

otherThanPayload ==
    <<storeVars, winsorVars, scoreVars, backtestVars, trainVars, pipelineVars,
      validationVars, loopVars>>

\* upsert_training_data makes the payload of the record.
SanitizeTrainingRecord ==
    /\ sanitize_run.record # <<>>
    /\ sanitize_run' = [sanitize_run EXCEPT
                           !.by = "upsert_training_data",
                           !.payload = [k \in DOMAIN sanitize_run.record |->
                                           clean_record(sanitize_run.record[k])]]
    /\ UNCHANGED otherThanPayload

\* update_features_in_db makes the features payload of the record.
SanitizeFeatures ==
    /\ sanitize_run.record # <<>>
    /\ sanitize_run' = [sanitize_run EXCEPT
                           !.by = "update_features_in_db",
                           !.payload = [k \in DOMAIN sanitize_run.record |->
                                           CleanFeature(sanitize_run.record[k])]]
    /\ UNCHANGED otherThanPayload

\* upsert_predictions makes the payload of the record.
SanitizePrediction ==
    /\ sanitize_run.record # <<>>
    /\ sanitize_run' = [sanitize_run EXCEPT
                           !.by = "upsert_predictions",
                           !.payload = [k \in DOMAIN sanitize_run.record |->
                                           CleanPrediction(sanitize_run.record[k])]]
    /\ UNCHANGED otherThanPayload

----------------------------------------------------------------------------
(* train_models.py: the hyperparameter search of train_for_horizon, one    *)
(* fold of CV_FOLDS per step.  A study is known by its best value (a mean  *)
(* absolute error, in thousandths) and its best parameters.                *)

\* float("inf"), and a finite mean absolute error.
Infinite == [inf |-> TRUE, v |-> 0]
Finite(v) == [inf |-> FALSE, v |-> v]

\* The best values a study can end with.
StudyValues == {100, 200}

\* train_mask.sum() < 30 or val_mask.sum() < 5: continue
FoldSkipped(hdf, fold) ==
    \/ Len(TrainMask(hdf, fold)) < MIN_FOLD_TRAIN
    \/ Len(YearsAt(hdf, fold.val, fold.val)) < MIN_FOLD_VAL

\* study.best_value <= best_val_mae
BetterOrEqual(value, best) == best.inf \/ value <= best.v

\* study.best_value < best_val_mae
Better(value, best) == best.inf \/ value < best.v

\* No search has started.
NoSearch ==
    [status |-> "idle", h |-> "", hdf |-> <<>>, fold |-> 1, studies |-> <<>>,
     best_val_mae |-> Infinite, best_params |-> None]

otherThanSearch ==
    <<storeVars, winsorVars, scoreVars, backtestVars, trainVars, pipelineVars,
      validationVars, payloadVars, page_run, calibration_run, portfolio_run>>

\* train_for_horizon up to the loop: hdf, the check of the sample count,
\* best_val_mae = float("inf") and best_params = None.
SearchStart ==
    /\ search_run.status # "searching"
    /\ \E h \in HorizonSet :
          \E hdf \in {HorizonFrame(load_training_data(investment_training_data), h)} :
              search_run' =
                  [NoSearch EXCEPT
                      !.status = IF Len(hdf) < MIN_HORIZON_ROWS THEN "too_few_samples"
                                 ELSE "searching",
                      !.h = h, !.hdf = hdf]
    /\ UNCHANGED otherThanSearch

\* One iteration of `for fold in CV_FOLDS`: the fold is skipped, or its study
\* is run and the best so far is replaced when the study's value is lower.
SearchFoldStep ==
    /\ search_run.status = "searching"
    /\ search_run.fold <= Len(CV_FOLDS)
    /\ IF FoldSkipped(search_run.hdf, CV_FOLDS[search_run.fold])
       THEN search_run' = [search_run EXCEPT !.fold = @ + 1]
       ELSE \E value \in StudyValues, params \in BestParams :
               search_run' =
                   [search_run EXCEPT
                       !.fold = @ + 1,
                       !.studies = Append(@,
                           [fold |-> search_run.fold,
                            fit_on |-> RowsAt(search_run.hdf,
                                TrainMask(search_run.hdf, CV_FOLDS[search_run.fold])),
                            evaluated_on |-> RowsAt(search_run.hdf,
                                YearsAt(search_run.hdf, CV_FOLDS[search_run.fold].val,
                                        CV_FOLDS[search_run.fold].val)),
                            best_value |-> value,
                            best_params |-> params]),
                       !.best_val_mae =
                           IF Better(value, search_run.best_val_mae)
                           THEN Finite(value) ELSE @,
                       !.best_params =
                           IF Better(value, search_run.best_val_mae)
                           THEN Some(params) ELSE @]
    /\ UNCHANGED otherThanSearch

\* After the loop: return {} when best_params is None, else go on.
SearchEnd ==
    /\ search_run.status = "searching"
    /\ search_run.fold > Len(CV_FOLDS)
    /\ search_run' = [search_run EXCEPT
                         !.status = IF search_run.best_params = None
                                    THEN "no_valid_fold" ELSE "searched"]
    /\ UNCHANGED otherThanSearch

\* The rows of one page request (1000 in the sources; here 2).
PAGE_SIZE == 2

\* The orders in which the store can list a result set for a request with
\* .order(column): ascending in the column, rows that share a value in any
\* order.
RECURSIVE StoreOrders(_)
StoreOrders(rows) ==
    IF rows = {} THEN {<<>>}
    ELSE UNION {{<<r>> \o t : t \in StoreOrders(rows \ {r})} :
                   r \in {x \in rows : \A y \in rows : x.key <= y.key}}

\* resp.data of .range(offset, offset + page_size - 1) on a listing.
RangeOf(listing, offset) ==
    SubSeq(listing, offset + 1, Min2(offset + PAGE_SIZE, Len(listing)))

\* No pagination loop has started on the result set.
NoPaging == [status |-> "idle", rows |-> {}, offset |-> 0, all_rows |-> <<>>,
             requests |-> <<>>, last_page |-> 0]

otherThanPaging ==
    <<storeVars, winsorVars, scoreVars, backtestVars, trainVars, pipelineVars,
      validationVars, payloadVars, search_run, calibration_run, portfolio_run>>

\* all_rows = []; offset = 0
PagingStart ==
    /\ page_run.status = "idle"
    /\ page_run' = [page_run EXCEPT !.status = "paging", !.offset = 0,
                                    !.all_rows = <<>>, !.requests = <<>>]
    /\ UNCHANGED otherThanPaging

\* One iteration of `while True`: the request, the break on an empty page,
\* the extend, the break on a short page, the next offset.
PagingRequest ==
    /\ page_run.status = "paging"
    /\ \E listing \in StoreOrders(page_run.rows) :
          LET data == RangeOf(listing, page_run.offset)
          IN page_run' =
                 [page_run EXCEPT
                     !.requests = Append(@, page_run.offset),
                     !.last_page = Len(data),
                     !.all_rows = @ \o data,
                     !.status = IF data = <<>> \/ Len(data) < PAGE_SIZE
                                THEN "done" ELSE "paging",
                     !.offset = IF data = <<>> \/ Len(data) < PAGE_SIZE
                                THEN @ ELSE @ + PAGE_SIZE]
    /\ UNCHANGED otherThanPaging

----------------------------------------------------------------------------
(* validate_model.py: the quantile calibration.  Its fractions, errors and *)
(* thresholds are Python floats; a float of 0..1 is written here as its    *)
(* binary digits, digit 1 the units digit and digit i + 1 that of 2^-i,    *)
(* and rounded as float64 arithmetic rounds: to 53 significant digits, to  *)
(* nearest, ties to even.                                                  *)

\* (h * h * k) modulo n
SquareTimesMod(h, k, n) == (h * h * k) % n

\* 2^i modulo n
RECURSIVE PowerOfTwoMod(_, _)
PowerOfTwoMod(i, n) ==
    IF i = 0 THEN 1 % n
    ELSE SquareTimesMod(PowerOfTwoMod(i \div 2, n), IF i % 2 = 1 THEN 2 ELSE 1, n)

\* What is left of r after i binary digits of r / n, r < n.
QuotientRest(r, n, i) == (r * PowerOfTwoMod(i, n)) % n

\* The first k binary digits of r / n after the point, r < n.
QuotientDigits(r, n, k) == [i \in 1..k |-> (2 * QuotientRest(r, n, i - 1)) \div n]

\* The place of the first digit 1, or 0.
LeadingDigit(d) ==
    IF \E i \in DOMAIN d : d[i] = 1
    THEN CHOOSE i \in DOMAIN d : d[i] = 1 /\ \A j \in 1..(i - 1) : d[j] = 0
    ELSE 0

\* d plus one unit of place i: the digits from i leftwards flip up to and
\* including the first 0.
AddUnit(d, i) ==
    [j \in DOMAIN d |->
        IF j <= i /\ \A m \in (j + 1)..i : d[m] = 1 THEN 1 - d[j] ELSE d[j]]

\* The float64 nearest to the number with digits d, followed by further
\* digits that are not all zero when `inexact`.
RoundToDouble(d, inexact) ==
    LET last == LeadingDigit(d) + 52
    IN IF LeadingDigit(d) = 0 \/ last >= Len(d) THEN d
       ELSE LET kept == [i \in DOMAIN d |-> IF i <= last THEN d[i] ELSE 0]
                more == inexact \/ \E i \in (last + 2)..Len(d) : d[i] = 1
            IN IF d[last + 1] = 1 /\ (more \/ d[last] = 1)
               THEN AddUnit(kept, last) ELSE kept

\* The float num / den of two integers with 0 <= num <= den: the mean of an
\* array of den booleans num of which are true, and the value of a decimal
\* literal such as 0.10.
Double(num, den) ==
    RoundToDouble(<<num \div den>> \o QuotientDigits(num % den, den, 63),
                  QuotientRest(num % den, den, 63) # 0)

\* a < b
DoubleLess(a, b) ==
    \E i \in DOMAIN a : a[i] < b[i] /\ \A j \in 1..(i - 1) : a[j] = b[j]

\* a - b for a >= b: place i borrows when the digits of a to its right are
\* less than those of b.
DoubleMinus(a, b) ==
    LET borrow(i) == IF \E k \in (i + 1)..Len(a) :
                            a[k] < b[k] /\ \A j \in (i + 1)..(k - 1) : a[j] = b[j]
                     THEN 1 ELSE 0
    IN RoundToDouble([i \in DOMAIN a |-> (a[i] - b[i] - borrow(i) + 2) % 2], FALSE)

\* abs(a - b)
DoubleAbsDifference(a, b) == IF DoubleLess(a, b) THEN DoubleMinus(b, a) ELSE DoubleMinus(a, b)

\* max(a, b, c)
DoubleMax(a, b, c) ==
    LET ab == IF DoubleLess(a, b) THEN b ELSE a
    IN IF DoubleLess(ab, c) THEN c ELSE ab

\* The nominal level of a quantile, in hundredths.
NominalLevel(q) == CASE q = "p25" -> 25 [] q = "p50" -> 50 [] q = "p75" -> 75

\* The floats 0.25, 0.50 and 0.75.
NominalDouble == [q \in {"p25", "p50", "p75"} |-> Double(NominalLevel(q), 100)]

\* The floats 0.10 and 0.15.
WellUnder == Double(10, 100)
ModeratelyUnder == Double(15, 100)

\* max(abs(agg_below_p25 - 0.25), abs(agg_below_p50 - 0.50),
\*     abs(agg_below_p75 - 0.75))
WorstError(agg_below) ==
    DoubleMax(DoubleAbsDifference(agg_below["p25"], NominalDouble["p25"]),
              DoubleAbsDifference(agg_below["p50"], NominalDouble["p50"]),
              DoubleAbsDifference(agg_below["p75"], NominalDouble["p75"]))

\* "well_calibrated" if the maximum < 0.10 else "moderately_calibrated" if
\* the maximum < 0.15 else "poorly_calibrated"
Assess(worst) ==
    IF DoubleLess(worst, WellUnder) THEN "well_calibrated"
    ELSE IF DoubleLess(worst, ModeratelyUnder) THEN "moderately_calibrated"
    ELSE "poorly_calibrated"

\* The calibration_assessment of the aggregate.
calibration_assessment(agg_below) == Assess(WorstError(agg_below))

\* The outputs of a fold's regressors: one value per quantile, the same for
\* every test row.
PredictedLevels == {WScale * 100 * l : l \in 1..4}

\* (y_test < fold_preds[q]).sum()
CountBelow(actuals, preds) == Cardinality({i \in DOMAIN actuals : actuals[i] < preds[i]})

\* train_mask.sum() < 30 or test_mask.sum() < 5: continue
CalibrationFoldSkipped(hdf, fold) ==
    \/ Len(YearsAt(hdf, 0, fold.train_end)) < MIN_FOLD_TRAIN
    \/ Len(YearsAt(hdf, fold.test, fold.test)) < MinTestRows("calibration")

\* horizon_results["aggregate"] of the pooled arrays.
CalibrationAggregate(all_actuals, all_preds) ==
    LET agg_below == [q \in Range(QUANTILES) |->
                         Double(CountBelow(all_actuals, all_preds[q]), Len(all_actuals))]
    IN [total_oos_samples      |-> Len(all_actuals),
        agg_below              |-> agg_below,
        calibration_assessment |-> calibration_assessment(agg_below)]

\* No calibration run has started.
NoCalibration ==
    [status |-> "idle", h |-> "", hdf |-> <<>>, fold |-> 1, folds |-> <<>>,
     all_actuals |-> <<>>, all_preds |-> [q \in Range(QUANTILES) |-> <<>>],
     aggregate |-> None]

otherThanCalibration ==
    <<storeVars, winsorVars, scoreVars, backtestVars, trainVars, pipelineVars,
      validationVars, payloadVars, search_run, page_run, portfolio_run>>

\* run_quantile_calibration for one horizon, up to the loop over the folds:
\* hdf and the check of the sample count.
CalibrationStart ==
    /\ calibration_run.status # "running"
    /\ \E h \in HorizonSet :
          \E hdf \in {HorizonFrame(load_training_data(investment_training_data), h)} :
              calibration_run' =
                  [NoCalibration EXCEPT
                      !.status = IF Len(hdf) < MIN_HORIZON_ROWS THEN "skipped"
                                 ELSE "running",
                      !.h = h, !.hdf = hdf]
    /\ UNCHANGED otherThanCalibration

\* One iteration of `for fold in CV_FOLDS`: the fold is skipped, or its three
\* regressors are fitted, its fractions are reported and its test rows and
\* predictions are added to the pooled arrays.
CalibrationFoldStep ==
    /\ calibration_run.status = "running"
    /\ calibration_run.fold <= Len(CV_FOLDS)
    /\ LET fold  == CV_FOLDS[calibration_run.fold]
           h     == calibration_run.h
           at    == YearsAt(calibration_run.hdf, fold.test, fold.test)
           y_test == [i \in DOMAIN at |-> calibration_run.hdf[at[i]].target[h][1]]
       IN IF CalibrationFoldSkipped(calibration_run.hdf, fold)
          THEN calibration_run' = [calibration_run EXCEPT !.fold = @ + 1]
          ELSE \E level \in [Range(QUANTILES) -> PredictedLevels] :
                  LET fold_preds == [q \in Range(QUANTILES) |->
                                        [i \in DOMAIN y_test |-> level[q]]]
                  IN calibration_run' =
                         [calibration_run EXCEPT
                             !.fold = @ + 1,
                             !.folds = Append(@,
                                 [test |-> fold.test, test_size |-> Len(at),
                                  below |-> [q \in Range(QUANTILES) |->
                                                CountBelow(y_test, fold_preds[q])]]),
                             !.all_actuals = @ \o y_test,
                             !.all_preds = [q \in Range(QUANTILES) |->
                                               @[q] \o fold_preds[q]]]
    /\ UNCHANGED otherThanCalibration

\* After the loop: the aggregate, when any fold was evaluated.
CalibrationEnd ==
    /\ calibration_run.status = "running"
    /\ calibration_run.fold > Len(CV_FOLDS)
    /\ calibration_run' =
           [calibration_run EXCEPT
               !.status = "done",
               !.aggregate =
                   IF calibration_run.all_actuals = <<>> THEN None
                   ELSE Some(CalibrationAggregate(calibration_run.all_actuals,
                                                  calibration_run.all_preds))]
    /\ UNCHANGED otherThanCalibration

----------------------------------------------------------------------------
(* validate_model.py: the top, middle and bottom groups of the portfolio   *)
(* backtest and the model's picks of the baseline comparison, for a        *)
(* requested --top-n.                                                      *)

\* min(top_n, len(sorted_df) // 2)
ActualTopNOfHalf(top_n, n_test) == Min2(top_n, n_test \div 2)

\* actual_top_n = min(top_n, len(sorted_df) // 3)
ActualTopN(top_n, n_test) == Min2(top_n, n_test \div 3)

\* The least actual_top_n with which a fold is evaluated.
MinGroupSize(protocol) == IF protocol = "baseline" THEN 3 ELSE 5

\* test_df.sort_values("investment_score", ascending=False): the positions
\* of test_df in sorted order; rows of equal score come out in any order.
RECURSIVE ByScoreDescending(_, _)
ByScoreDescending(test_df, used) ==
    IF used = DOMAIN test_df THEN {<<>>}
    ELSE LET rest  == DOMAIN test_df \ used
             first == {j \in rest : \A k \in rest :
                          test_df[j].investment_score >= test_df[k].investment_score}
         IN UNION {{<<j>> \o t : t \in ByScoreDescending(test_df, used \cup {j})} :
                      j \in first}

\* test_df.nlargest(n, "pred_appreciation_%"): the positions of the n largest
\* predictions, the first occurrence winning a tie.
RECURSIVE NLargest(_, _, _)
NLargest(test_df, n, used) ==
    IF n = 0 \/ used = DOMAIN test_df THEN <<>>
    ELSE LET rest == DOMAIN test_df \ used
             j == CHOOSE m \in rest : \A k \in rest :
                     \/ test_df[m].pred_appreciation[1] > test_df[k].pred_appreciation[1]
                     \/ /\ test_df[m].pred_appreciation[1] = test_df[k].pred_appreciation[1]
                        /\ m <= k
         IN <<j>> \o NLargest(test_df, n - 1, used \cup {j})

\* head(n), tail(n) and iloc[n:-n] of the sorted frame.
TopBottom(sorted, n) ==
    [top    |-> SubSeq(sorted, 1, n),
     bottom |-> SubSeq(sorted, Len(sorted) - n + 1, Len(sorted)),
     middle |-> IF Len(sorted) > 2 * n THEN SubSeq(sorted, n + 1, Len(sorted) - n)
                ELSE <<>>]

\* The results one fold of run_portfolio_backtest(df, top_n) can append: none
\* when the fold is skipped, else one per outcome of the sort.
GroupedFold(hdf, fold, shift, top_n) ==
    LET train == SelectSeq(hdf, LAMBDA r : r.retirement_year <= fold.train_end)
        test  == SelectSeq(hdf, LAMBDA r : r.retirement_year = fold.test)
        test_df == ScoredTestFrame(test, shift)
        actual_top_n == ActualTopN(top_n, Len(test))
    IN IF Len(train) < MIN_FOLD_TRAIN \/ Len(test) < MinTestRows("backtest")
       THEN {<<>>}
       ELSE IF actual_top_n < MinGroupSize("backtest") THEN {<<>>}
       ELSE {<<[test |-> fold.test, test_size |-> Len(test), top_n |-> actual_top_n,
                test_df |-> test_df, groups |-> TopBottom(sorted_df, actual_top_n)]>> :
                sorted_df \in ByScoreDescending(test_df, {})}

RECURSIVE GroupedFolds(_, _, _, _)
GroupedFolds(hdf, folds, shift, top_n) ==
    IF folds = <<>> THEN {<<>>}
    ELSE {f \o rest : f \in GroupedFold(hdf, Head(folds), shift, top_n),
                      rest \in GroupedFolds(hdf, Tail(folds), shift, top_n)}

\* What one fold of run_baseline_comparison(df, top_n) appends.
BaselineFold(hdf, fold, shift, top_n) ==
    LET train == SelectSeq(hdf, LAMBDA r : r.retirement_year <= fold.train_end)
        test  == SelectSeq(hdf, LAMBDA r : r.retirement_year = fold.test)
        test_df == ScoredTestFrame(test, shift)
        actual_top_n == ActualTopN(top_n, Len(test))
    IN IF Len(train) < MIN_FOLD_TRAIN \/ Len(test) < MinTestRows("baseline") THEN <<>>
       ELSE IF actual_top_n < MinGroupSize("baseline") THEN <<>>
       ELSE <<[test |-> fold.test, test_size |-> Len(test), top_n |-> actual_top_n,
               model_top |-> NLargest(test_df, actual_top_n, {})]>>

RECURSIVE BaselineFolds(_, _, _, _)
BaselineFolds(hdf, folds, shift, top_n) ==
    IF folds = <<>> THEN <<>>
    ELSE BaselineFold(hdf, Head(folds), shift, top_n)
         \o BaselineFolds(hdf, Tail(folds), shift, top_n)

\* The values of --top-n the validator is run with.
TopNChoices == {2, 5, TOP_N}

\* No frame loaded, nothing run.
NoPortfolio == [hdf |-> <<>>, top_n |-> 0, ran |-> {}, backtest |-> <<>>,
                baseline |-> <<>>]

otherThanPortfolio ==
    <<storeVars, winsorVars, scoreVars, backtestVars, trainVars, pipelineVars,
      validationVars, payloadVars, search_run, page_run, calibration_run>>

\* run_portfolio_backtest(df, top_n), the first test main() runs, for any
\* outputs of the fold's regressors.
TopBottomBacktest ==
    /\ portfolio_run.hdf # <<>>
    /\ portfolio_run.ran = {}
    /\ \E top_n \in TopNChoices, shift \in 0..1 :
          \E folds \in GroupedFolds(portfolio_run.hdf, CV_FOLDS, shift, top_n) :
              portfolio_run' = [portfolio_run EXCEPT
                                   !.top_n = top_n, !.ran = {"backtest"},
                                   !.backtest = folds, !.baseline = <<>>]
    /\ UNCHANGED otherThanPortfolio

\* run_baseline_comparison(df, top_n), with the same top_n as the backtest
\* when main() has run it before.
BaselineComparison ==
    /\ portfolio_run.hdf # <<>>
    /\ "baseline" \notin portfolio_run.ran
    /\ \E top_n \in (IF portfolio_run.ran = {} THEN TopNChoices ELSE {portfolio_run.top_n}),
          shift \in 0..1 :
          portfolio_run' = [portfolio_run EXCEPT
                               !.top_n = top_n, !.ran = @ \cup {"baseline"},
                               !.baseline = BaselineFolds(portfolio_run.hdf, CV_FOLDS,
                                                          shift, top_n)]
    /\ UNCHANGED otherThanPortfolio

----------------------------------------------------------------------------
(* Histories the runs start from.  A fill vector gives, per milestone, how *)
(* many observations the history has inside that milestone's window.       *)

FillDays == <<0 - 10, 5, 0>>
FillPrices == <<10, 20, 20>>

FillPriced(set_num, exit_date, fills, prices) ==
    {[set_num |-> set_num,
      date |-> exit_date + MILESTONES[MilestoneNames[mk[1]]][1] + FillDays[mk[2]],
      price_gbp |-> prices[mk[2]], seller_count |-> Some(3),
      buy_box_winner |-> Some("Amazon"), batch |-> 0] :
        mk \in {x \in (DOMAIN fills) \X (1..3) : x[2] <= fills[x[1]]}}

Fill(set_num, exit_date, fills) == FillPriced(set_num, exit_date, fills, FillPrices)

\* good; partial with two points in the retirement and 6m windows; partial;
\* insufficient; no observation at all.
FillVectors ==
    {<<3, 3, 3, 3, 3>>, <<2, 2, 3, 3, 3>>, <<3, 0, 0, 3, 0>>,
     <<2, 2, 0, 0, 0>>, <<0, 0, 0, 0, 0>>}

\* No model file, no prediction, no scoring run yet.
ScoreIdle ==
    /\ model_files = {}
    /\ investment_predictions = <<>>
    /\ score_run = NoRun

\* The validator has loaded no frame.
BacktestIdle == backtest_run = [hdf |-> <<>>, folds |-> <<>>]

\* No training run yet: the files of MODELS_DIR, if any, are those of an
\* earlier run 0, and investment_model_runs is empty.
TrainIdle ==
    /\ investment_model_runs = <<>>
    /\ artifact_origin = [f \in model_files |-> 0]
    /\ train_run = NoTraining

\* No search, pagination loop, calibration or backtest has started.
LoopsIdle ==
    /\ search_run = NoSearch
    /\ page_run = NoPaging
    /\ calibration_run = NoCalibration
    /\ portfolio_run = NoPortfolio

\* The orchestrator and the validator have not started.
ProcessIdle ==
    /\ TrainIdle
    /\ pipeline = NoPipeline
    /\ validation_run = NoValidation
    /\ sanitize_run = NoPayload
    /\ LoopsIdle

SetRow(n, exit_date, rrp, theme) ==
    [set_number |-> n, exit_date |-> Some(exit_date), uk_retail_price |-> Some(rrp),
     retirement_status |-> "retired", theme |-> theme, pieces |-> Some(500)]

\* Two retired sets, one of which may be priced under MIN_RRP_GBP.
InitBuild ==
    /\ \E rrp2 \in {4, 10} :
          brickset_sets = {SetRow(1, 100, 10, Some("A")), SetRow(2, 100, rrp2, Some("B"))}
    /\ \E f1 \in FillVectors, f2 \in FillVectors :
          price_snapshots = Fill(1, 100, f1) \cup Fill(2, 100, f2)
    /\ investment_training_data = <<>>
    /\ winsor_run = <<>>
    /\ ScoreIdle
    /\ BacktestIdle
    /\ ProcessIdle

NextBuild == ImportSnapshot \/ BuildTrainingData

SpecBuild == InitBuild /\ [][NextBuild]_vars

----------------------------------------------------------------------------
(* Properties of the build step.                                           *)

SnapsOfSet(n) == {s \in price_snapshots : s.set_num = n}

\* A stored row is fresh when no observation of its set was imported after
\* the build run that wrote it (price_snapshots is append-only and the row
\* stores the number of observations the run saw).
Fresh(n) ==
    /\ n \in DOMAIN investment_training_data
    /\ investment_training_data[n].snapshot_count = Cardinality(SnapsOfSet(n))

\* First and last day of each window, relative to the exit date.
WindowDays ==
    [m \in Range(MilestoneNames) |->
        CASE m = "retirement" -> <<0 - 15, 15>>
          [] m = "6m"         -> <<150, 210>>
          [] m = "1yr"        -> <<335, 395>>
          [] m = "2yr"        -> <<700, 760>>
          [] m = "3yr"        -> <<1065, 1125>>]

Selected(n, exit_date, m) ==
    {s \in SnapsOfSet(n) : /\ exit_date + WindowDays[m][1] <= s.date
                           /\ s.date <= exit_date + WindowDays[m][2]}

\* C3: every milestone price a build run stores is the median of exactly the
\* observations dated within [exit + centre - half, exit + centre + half],
\* both ends included, when there are at least 3 of them, and null otherwise.
C3_MilestoneWindows ==
    \A n \in DOMAIN investment_training_data :
        Fresh(n) =>
            \A m \in Range(MilestoneNames) :
                LET row == investment_training_data[n]
                    sel == Selected(n, row.exit_date, m)
                IN IF Cardinality(sel) >= 3
                   THEN row.price[m] = Some(Median(PricesOf(sel)))
                   ELSE row.price[m] = None

\* A fresh row with a null milestone despite 2 qualifying points, and a
\* defined milestone that counts an observation dated on a window end.
C3_Witness ==
    \E n \in DOMAIN investment_training_data :
        LET row == investment_training_data[n] IN
        /\ Fresh(n)
        /\ \E m \in Range(MilestoneNames) :
              Cardinality(Selected(n, row.exit_date, m)) = 2 /\ row.price[m] = None
        /\ \E m \in Range(MilestoneNames) :
              /\ Cardinality(Selected(n, row.exit_date, m)) = 3
              /\ NotNull(row.price[m])
              /\ \E s \in Selected(n, row.exit_date, m) :
                    s.date \in {row.exit_date + WindowDays[m][1],
                                row.exit_date + WindowDays[m][2]}

DefinedTargets(row) == {h \in HorizonSet : row.target[h] # None}

QualityMatches(row) ==
    /\ row.data_quality = "good" <=> Cardinality(DefinedTargets(row)) = 4
    /\ row.data_quality = "partial" <=> Cardinality(DefinedTargets(row)) \in 1..3
    /\ row.data_quality = "insufficient" <=> DefinedTargets(row) = {}
    /\ \A h \in HorizonSet : row.price[h] = None => row.target[h] = None

\* The rows compute_milestone_prices produces from the present tables.
MilestoneRowsNow ==
    LET sets_df == fetch_retired_sets(brickset_sets) IN
    compute_milestone_prices(sets_df,
        fetch_price_snapshots(price_snapshots,
                              {sets_df[i].set_number : i \in DOMAIN sets_df}))

\* C4: data_quality is good iff all four forward targets are defined,
\* partial iff one to three are, insufficient iff none is; a target is
\* undefined whenever its milestone price is; and only good or partial rows
\* are stored, so every stored row has at least one defined target.
C4_DataQuality ==
    /\ \A i \in DOMAIN MilestoneRowsNow : QualityMatches(MilestoneRowsNow[i])
    /\ \A n \in DOMAIN investment_training_data :
          LET row == investment_training_data[n] IN
          /\ row.data_quality \in {"good", "partial"}
          /\ DefinedTargets(row) # {}
          /\ QualityMatches(row)

\* A build run has stored a partial row and has left out a set whose row is
\* insufficient.
C4_Witness ==
    /\ \E n \in DOMAIN investment_training_data :
          Fresh(n) /\ investment_training_data[n].data_quality = "partial"
    /\ \E i \in DOMAIN MilestoneRowsNow :
          /\ MilestoneRowsNow[i].data_quality = "insufficient"
          /\ MilestoneRowsNow[i].set_num \notin DOMAIN investment_training_data

----------------------------------------------------------------------------
(* Feature engineering over a history of five retired sets.                *)

ThemeChoices == {Some("A"), Some("B"), None}

\* Sets 1..3 have theme A; sets 4 and 5 any theme or none.  Exit dates are
\* non-decreasing in the set number, with ties.  Every set has its 1yr
\* window filled, set 3 possibly all windows.
InitTheme ==
    /\ \E d2 \in {100, 200}, d3 \in {200, 300}, d4 \in {300, 400},
          t4 \in ThemeChoices, t5 \in ThemeChoices, f3 \in {<<0, 0, 3, 0, 0>>, <<3, 3, 3, 3, 3>>},
          f5 \in {<<0, 0, 3, 0, 0>>, <<0, 0, 0, 3, 0>>} :
          /\ brickset_sets =
                {SetRow(1, 100, 10, Some("A")), SetRow(2, d2, 10, Some("A")),
                 SetRow(3, d3, 20, Some("A")), SetRow(4, d4, 10, t4),
                 SetRow(5, 400, 10, t5)}
          /\ price_snapshots =
                Fill(1, 100, <<0, 0, 3, 0, 0>>) \cup Fill(2, d2, <<0, 0, 3, 0, 0>>)
                \cup Fill(3, d3, f3) \cup Fill(4, d4, <<0, 0, 3, 0, 0>>)
                \cup Fill(5, 400, f5)
    /\ investment_training_data = <<>>
    /\ winsor_run = <<>>
    /\ ScoreIdle
    /\ BacktestIdle
    /\ ProcessIdle

NextTheme == BuildTrainingData \/ EngineerFeatures

SpecTheme == InitTheme /\ [][NextTheme]_vars

\* The rows that may be aggregated for the stored row of set n at horizon h:
\* same theme, target defined, exit date strictly earlier.
AllowedPrior(n, h) ==
    {m \in DOMAIN investment_training_data :
        /\ NotNull(ThemeOf(brickset_sets, n))
        /\ ThemeOf(brickset_sets, m) = ThemeOf(brickset_sets, n)
        /\ NotNull(investment_training_data[m].target[h])
        /\ investment_training_data[m].exit_date < investment_training_data[n].exit_date}

\* C1: the rows aggregated into the theme features stored for a row X are
\* rows of X's theme with a defined target whose exit date is strictly
\* earlier than X's; never X itself, never a row dated on or after X.
C1_PriorOnlyEarlierSameTheme ==
    \A n \in DOMAIN investment_training_data :
        NotNull(investment_training_data[n].features) =>
            \A h \in HorizonSet :
                investment_training_data[n].features[1].theme[h].prior_sets
                    \subseteq AllowedPrior(n, h)

----------------------------------------------------------------------------
(* winsorise_targets applied repeatedly to a table of targets.             *)

MaxWinsorRows == 11
MaxApplications == 2

StoreIdle ==
    /\ brickset_sets = {}
    /\ price_snapshots = {}
    /\ investment_training_data = <<>>

\* Targets are log returns in thousandths, scaled as LogReturn scales them.
LowTargets == {0 - 200, 0 - 100}
HighTargets == {300, 400}

\* n rows; the 1yr column has its two smallest and two largest values drawn
\* from LowTargets and HighTargets (ties included) and 0 elsewhere; the 6m
\* column has 9 defined values; the 2yr and 3yr columns are empty.
TargetTable(n, a, b, c, d) ==
    [i \in 1..n |->
        [set_num |-> i,
         target |->
            [h \in HorizonSet |->
                CASE h = "1yr" -> Some(WScale * (CASE i = 1 -> a [] i = 2 -> b
                                                   [] i = n - 1 -> c [] i = n -> d
                                                   [] OTHER -> 0))
                  [] h = "6m"  -> IF i <= 9 THEN Some(WScale * 100 * i) ELSE None
                  [] OTHER     -> None]]]

InitWinsor ==
    /\ StoreIdle
    /\ ScoreIdle
    /\ BacktestIdle
    /\ ProcessIdle
    /\ \E n \in 9..MaxWinsorRows, a \in LowTargets, b \in LowTargets,
          c \in HighTargets, d \in HighTargets :
          winsor_run = <<TargetTable(n, a, b, c, d)>>

ApplyWinsorise ==
    /\ Len(winsor_run) <= MaxApplications
    /\ winsor_run' = Append(winsor_run, winsorise_targets(winsor_run[Len(winsor_run)]))
    /\ UNCHANGED otherThanWinsor

NextWinsor == ApplyWinsorise

SpecWinsor == InitWinsor /\ [][NextWinsor]_vars

Column(df, h) == [i \in DOMAIN df |-> df[i].target[h]]
ValidValues(col) ==
    LET valid == SelectSeq(col, NotNull) IN [i \in DOMAIN valid |-> valid[i][1]]

\* C5 as stated: the second application gives the table the first gave.
C5_Idempotent ==
    Len(winsor_run) >= 3 =>
        \A h \in HorizonSet : Column(winsor_run[3], h) = Column(winsor_run[2], h)

\* C5, amended: a second application recomputes the bounds from the clipped
\* column and never widens them: low1 <= low2 <= high2 <= high1, every value
\* of the twice-winsorised column lies within [low2, high2], nulls stay
\* null, and (for 10 to 50 defined values) the second result equals the
\* first exactly when the first application changed nothing.  A column with
\* fewer than 10 defined values is left unchanged by every application.
C5_SecondApplicationNarrows ==
    Len(winsor_run) >= 3 =>
        \A h \in HorizonSet :
            LET col0 == Column(winsor_run[1], h)
                col1 == Column(winsor_run[2], h)
                col2 == Column(winsor_run[3], h)
            IN IF Len(ValidValues(col0)) < 10
               THEN col1 = col0 /\ col2 = col0
               ELSE LET low1  == Quantile(ValidValues(col0), WINSOR_LOW)
                        high1 == Quantile(ValidValues(col0), WINSOR_HIGH)
                        low2  == Quantile(ValidValues(col1), WINSOR_LOW)
                        high2 == Quantile(ValidValues(col1), WINSOR_HIGH)
                    IN /\ low1 <= low2 /\ low2 <= high2 /\ high2 <= high1
                       /\ \A i \in DOMAIN col0 :
                             /\ IsNull(col0[i]) <=> IsNull(col2[i])
                             /\ IsNull(col0[i]) <=> IsNull(col1[i])
                             /\ NotNull(col0[i]) =>
                                   /\ low1 <= col1[i][1] /\ col1[i][1] <= high1
                                   /\ low2 <= col2[i][1] /\ col2[i][1] <= high2
                       /\ (col2 = col1) <=> (col1 = col0)

\* Two applications were made to a table with a column of at least 10
\* defined values that the first application clipped at both ends and the
\* second clipped again, and a column of fewer than 10 defined values.
C5_Witness ==
    /\ Len(winsor_run) >= 3
    /\ Len(ValidValues(Column(winsor_run[1], "1yr"))) >= 10
    /\ Column(winsor_run[2], "1yr") # Column(winsor_run[1], "1yr")
    /\ Column(winsor_run[3], "1yr") # Column(winsor_run[2], "1yr")
    /\ Len(ValidValues(Column(winsor_run[1], "6m"))) = 9

----------------------------------------------------------------------------
(* Build followed by feature engineering over one theme whose sets retire  *)
(* on distinct dates (the sort has one outcome), each with its 1yr window  *)
(* filled at one price.                                                    *)

LeakSets == 10
LeakPrices == {6, 10, 20}

\* Set 1 sells at half its RRP, sets 2..4 at RRP, the later sets at any of
\* LeakPrices.
InitLeak ==
    /\ brickset_sets = {SetRow(n, 100 * n, 10, Some("A")) : n \in 1..LeakSets}
    /\ \E price \in [5..LeakSets -> LeakPrices] :
          price_snapshots =
              UNION {FillPriced(n, 100 * n, <<0, 0, 3, 0, 0>>,
                                LET p == IF n = 1 THEN 5 ELSE IF n <= 4 THEN 10 ELSE price[n]
                                IN <<p, p, p>>) : n \in 1..LeakSets}
    /\ investment_training_data = <<>>
    /\ winsor_run = <<>>
    /\ ScoreIdle
    /\ BacktestIdle
    /\ ProcessIdle

NextLeak == BuildTrainingData \/ EngineerFeatures

SpecLeak == InitLeak /\ [][NextLeak]_vars

\* The history ps with every observation of set n repriced at p.
Repriced(ps, n, p) ==
    {[s EXCEPT !.price_gbp = IF s.set_num = n THEN p ELSE @] : s \in ps}

\* The theme mean, median, std and sample size of one row, per horizon.
ThemeValues(theme) ==
    [h \in HorizonSet |-> <<theme[h].mean, theme[h].median, theme[h].std, theme[h].n>>]

\* The theme values that build followed by feature engineering gives set x
\* from the tables bs and ps, one per outcome of the sort.
PipelineThemeValues(bs, ps, x) ==
    LET table == UpsertedTraining(<<>>, TrainingRows(bs, ps))
        df    == fetch_training_sets(table, bs)
    IN {ThemeValues(compute_theme_historical_features(df, order)[i]) :
            <<order, i>> \in {oi \in sort_values(df) \X DOMAIN df : df[oi[2]].set_num = x}}

\* C2: the theme features stored for a row X are those the pipeline gives X
\* on every history that differs from the present one only in the price
\* observations of sets that retire on or after X's exit date.
C2_NonInterference ==
    \A x \in DOMAIN investment_training_data :
        (/\ Fresh(x)
         /\ NotNull(investment_training_data[x].features)) =>
            \A r \in {y \in brickset_sets :
                          y.exit_date[1] >= investment_training_data[x].exit_date},
               p \in LeakPrices :
                PipelineThemeValues(brickset_sets,
                                    Repriced(price_snapshots, r.set_number, p), x)
                    = {ThemeValues(investment_training_data[x].features[1].theme)}

----------------------------------------------------------------------------
(* Scoring runs over a store of four retired sets and MaxLive live items.  *)

MaxLive == 2

AllModelFiles == HorizonSet \X ModelFileKinds

\* MODELS_DIR complete, with one file of one horizon missing, or empty.
ModelFileChoices ==
    {AllModelFiles, {},
     AllModelFiles \ {<<"6m", "p25">>}, AllModelFiles \ {<<"1yr", "p50">>},
     AllModelFiles \ {<<"2yr", "p75">>}, AllModelFiles \ {<<"3yr", "features">>}}

\* The kinds of live item: (1) available, priced, themed, three observations;
\* (2) retiring soon, priced, themed, no observation; (3) no launch price;
\* (4) no theme, two observations far apart; (5) retired in 2025, expensive,
\* few pieces, of a theme without training rows, no observation; (6) priced
\* under 5 GBP, themed, no observation.
LiveKinds == 1..6

LiveRow(n, k) ==
    [set_number |-> n,
     exit_date |-> IF k = 5 THEN Some(4800) ELSE None,
     uk_retail_price |-> CASE k = 3 -> None [] k = 5 -> Some(250) [] k = 6 -> Some(4)
                           [] OTHER -> Some(10),
     retirement_status |-> CASE k = 2 -> "retiring_soon" [] k = 5 -> "retired"
                             [] OTHER -> "available",
     theme |-> CASE k = 4 -> None [] k = 5 -> Some("Z") [] OTHER -> Some("A"),
     pieces |-> IF k = 5 THEN Some(50) ELSE Some(500)]

LiveSnapshot(n, date, price, seller_count, buy_box_winner) ==
    [set_num |-> n, date |-> date, price_gbp |-> price, seller_count |-> seller_count,
     buy_box_winner |-> buy_box_winner, batch |-> 0]

LiveSnaps(n, k) ==
    CASE k = 1 -> {LiveSnapshot(n, 4900, 8, Some(3), Some("Amazon")),
                   LiveSnapshot(n, 4970, 12, Some(4), Some("Amazon")),
                   LiveSnapshot(n, 5000, 9, None, Some("Other"))}
      [] k = 4 -> {LiveSnapshot(n, 4800, 8, None, None),
                   LiveSnapshot(n, 5000, 12, None, None)}
      [] OTHER -> {}

RetiredForScoring ==
    {SetRow(1, 100, 10, Some("A")), SetRow(2, 200, 10, Some("A")),
     SetRow(3, 300, 20, Some("A")), SetRow(4, 300, 10, Some("B"))}

RetiredSnapsForScoring ==
    Fill(1, 100, <<0, 0, 3, 0, 0>>) \cup Fill(2, 200, <<0, 0, 3, 0, 0>>)
    \cup Fill(3, 300, <<0, 0, 3, 0, 0>>) \cup Fill(4, 300, <<0, 0, 3, 0, 3>>)

\* The store with live items of the given kinds (in the order of their set
\* numbers) and no training row yet.
LiveStore(kinds) ==
    /\ \E kind \in {k \in [1..MaxLive -> kinds] :
                        \A i, j \in 1..MaxLive : i < j => k[i] <= k[j]} :
          /\ brickset_sets =
                RetiredForScoring \cup {LiveRow(100 + i, kind[i]) : i \in 1..MaxLive}
          /\ price_snapshots =
                RetiredSnapsForScoring
                \cup UNION {LiveSnaps(100 + i, kind[i]) : i \in 1..MaxLive}
    /\ investment_training_data = <<>>
    /\ investment_predictions = <<>>
    /\ score_run = NoRun
    /\ winsor_run = <<>>

InitScore ==
    /\ LiveStore(LiveKinds)
    /\ model_files \in ModelFileChoices
    /\ BacktestIdle
    /\ ProcessIdle

NextScore == BuildTrainingData \/ ScoreRun

SpecScore == InitScore /\ [][NextScore]_vars

\* The validator's frame: n_train rows retired in 2018, n_test rows retired
\* in 2020 (every other one without RRP) and nine rows retired in 2021.
BacktestFrame(n_train, n_test) ==
    [i \in 1..n_train |-> [retirement_year |-> 2018, rrp_gbp |-> Some(10)]]
    \o [i \in 1..n_test |->
           [retirement_year |-> 2020,
            rrp_gbp |-> IF i % 2 = 0 THEN NaN ELSE Some(10 * i)]]
    \o [i \in 1..9 |-> [retirement_year |-> 2021, rrp_gbp |-> Some(10)]]

InitComposite ==
    /\ LiveStore({1, 2, 5})
    /\ model_files = AllModelFiles
    /\ \E n_train \in {29, 30}, n_test \in {9, 15} :
          backtest_run = [hdf |-> BacktestFrame(n_train, n_test), folds |-> <<>>]
    /\ ProcessIdle

NextComposite == BuildTrainingData \/ ScoreRun \/ PortfolioBacktest

SpecComposite == InitComposite /\ [][NextComposite]_vars

----------------------------------------------------------------------------
(* Properties of the scoring run.                                          *)

\* The last scoring run got as far as score_sets.
ReachedScoring == score_run.status = "returned" /\ score_run.df # <<>>

PredictionsOf(n) ==
    {i \in DOMAIN score_run.predictions : score_run.predictions[i]["set_num"] = n}

\* C6: every investment_score that score_sets produces, and every one that
\* is stored, lies between 0 and 10 (0 and 1000 hundredths), both included.
C6_ScoreInRange ==
    /\ \A i \in DOMAIN score_run.predictions :
          LET pred == score_run.predictions[i] IN
          "investment_score" \in DOMAIN pred =>
              /\ IsValue(pred["investment_score"])
              /\ pred["investment_score"][1] >= 0
              /\ pred["investment_score"][1] <= 1000
    /\ \A n \in DOMAIN investment_predictions :
          LET row == investment_predictions[n] IN
          "investment_score" \in DOMAIN row =>
              /\ IsValue(row["investment_score"])
              /\ row["investment_score"][1] >= 0
              /\ row["investment_score"][1] <= 1000

\* A batch of two in which one item reaches the score 10 and the other has
\* NaN 1yr predictions, scored with the 0.5 defaults.
C6_Witness ==
    /\ ReachedScoring
    /\ \E i, j \in DOMAIN score_run.predictions :
          /\ "investment_score" \in DOMAIN score_run.predictions[i]
          /\ score_run.predictions[i]["investment_score"] = Some(1000)
          /\ score_run.predictions[j]["confidence_1yr"] = NaN
          /\ score_run.predictions[j]["expected_profit_1yr_gbp"] = NaN
          /\ score_run.predictions[j]["investment_score"][1] \in 1..999

WeightNames ==
    {"appreciation_1yr", "confidence_1yr", "expected_profit_1yr", "risk_adjusted"}

\* The weighted sum of the four components with the configured weights.
WeightedSum(app_rank, conf_vals, profit_rank, risk_rank) ==
    SCORE_WEIGHTS["appreciation_1yr"] * app_rank
    + SCORE_WEIGHTS["confidence_1yr"] * conf_vals
    + SCORE_WEIGHTS["expected_profit_1yr"] * profit_rank
    + SCORE_WEIGHTS["risk_adjusted"] * risk_rank

PredictionColumn(k) ==
    [i \in DOMAIN score_run.predictions |-> score_run.predictions[i][k]]

\* C7: the four configured weights sum to 1.0 (100 hundredths), and every
\* investment_score of score_sets and of the backtest is the sum of the four
\* components (1yr appreciation rank, 1yr confidence, 1yr profit rank,
\* risk-adjusted rank), each times its configured weight, times 10.
C7_WeightsSumToOne ==
    /\ DOMAIN SCORE_WEIGHTS = WeightNames
    /\ SCORE_WEIGHTS["appreciation_1yr"] + SCORE_WEIGHTS["confidence_1yr"]
       + SCORE_WEIGHTS["expected_profit_1yr"] + SCORE_WEIGHTS["risk_adjusted"] = 100
    /\ \A i \in DOMAIN score_run.predictions :
          LET pred == score_run.predictions[i] IN
          "investment_score" \in DOMAIN pred =>
              pred["investment_score"] =
                  Some(RoundDiv(
                      WeightedSum(
                          FillHalf(RankPct(PredictionColumn("predicted_1yr_appreciation"), i)),
                          FillHalf(pred["confidence_1yr"]),
                          FillHalf(RankPct(PredictionColumn("expected_profit_1yr_gbp"), i)),
                          FillHalf(RankPct(PredictionColumn("risk_adjusted_score"), i))),
                      1000))
    /\ \A f \in DOMAIN backtest_run.folds :
          LET test_df == backtest_run.folds[f].test_df IN
          \A i \in DOMAIN test_df :
              test_df[i].investment_score =
                  WeightedSum(
                      FillHalf(RankPct([j \in DOMAIN test_df |-> test_df[j].pred_appreciation], i)),
                      FillHalf(test_df[i].confidence),
                      FillHalf(RankPct([j \in DOMAIN test_df |-> test_df[j].pred_profit], i)),
                      FillHalf(RankPct([j \in DOMAIN test_df |-> test_df[j].risk_adjusted], i)))

\* A scoring run has given two items different scores, and a backtest has
\* scored the test rows of a fold.
C7_Witness ==
    /\ ReachedScoring
    /\ \E i, j \in DOMAIN score_run.predictions :
          /\ "investment_score" \in DOMAIN score_run.predictions[i]
          /\ score_run.predictions[i]["investment_score"][1]
                < score_run.predictions[j]["investment_score"][1]
    /\ \E f \in DOMAIN backtest_run.folds :
          /\ backtest_run.folds[f].evaluated
          /\ \E i, j \in DOMAIN backtest_run.folds[f].test_df :
                backtest_run.folds[f].test_df[i].investment_score
                    < backtest_run.folds[f].test_df[j].investment_score

\* The fields of a prediction of a run in which every horizon is loaded,
\* less the prediction fields of the horizons that are not in `models`.
RunFields(models) ==
    {"set_num", "model_version", "scored_at", "features_used",
     "expected_profit_1yr_gbp", "expected_profit_3yr_gbp", "risk_adjusted_score",
     "training_r2", "validation_r2", "investment_score", "risk_factors"}
    \cup UNION {HorizonFields(h) : h \in Range(models)}

CompleteHorizons ==
    {h \in HorizonSet : \A k \in ModelFileKinds : <<h, k>> \in model_files}

\* C8: a scoring run loads exactly the horizons whose files are all there,
\* and every prediction it hands to upsert_predictions has the fields of a
\* full run (investment_score and risk_factors included) less the prediction
\* fields of the horizons that were not loaded.
C8_MissingHorizonOnly ==
    ReachedScoring =>
        /\ Range(score_run.models) = CompleteHorizons
        /\ \A i \in DOMAIN score_run.predictions :
              DOMAIN score_run.predictions[i] = RunFields(score_run.models)

\* The live items: available, retiring soon, or retired since 2025-01-01.
LiveItems ==
    {r \in brickset_sets :
        \/ r.retirement_status \in {"available", "retiring_soon"}
        \/ (r.retirement_status = "retired" /\ NotNull(r.exit_date)
            /\ r.exit_date[1] >= RECENT_EXIT_DAY)}

Observations(r) == {s \in price_snapshots : s.set_num = r.set_number}

FetchedPosition(r) ==
    {i \in DOMAIN score_run.df : score_run.df[i].set_number = r.set_number}

\* r has all five trajectory features null, exactly one prediction, and the
\* table holds that prediction.
ScoredWithNullTrajectory(r) ==
    /\ \A i \in FetchedPosition(r), k \in TrajectoryNames :
          score_run.features[i].trajectory[k] = NaN
    /\ Cardinality(FetchedPosition(r)) = 1
    /\ Cardinality(PredictionsOf(r.set_number)) = 1
    /\ r.set_number \in DOMAIN investment_predictions
    /\ \A i \in PredictionsOf(r.set_number) :
          /\ \A k \in TrajectoryNames :
                score_run.predictions[i]["features_used"][k] = None
          /\ investment_predictions[r.set_number]["scored_at"]
                = score_run.predictions[i]["scored_at"]
          /\ DOMAIN investment_predictions[r.set_number]
                = DOMAIN score_run.predictions[i]

LackingFields == {r \in LiveItems : IsNull(r.uk_retail_price) \/ IsNull(r.theme)}

\* C10: in a run that scores, a live item without launch price or without
\* theme has no prediction, the number of such items is in the run's log or
\* summary, and an item with both has exactly one prediction.
C10_SkippedWithLoggedCount ==
    ReachedScoring =>
        /\ \A r \in LackingFields : PredictionsOf(r.set_number) = {}
        /\ \/ /\ "skipped" \in DOMAIN score_run.summary
              /\ score_run.summary["skipped"] = Cardinality(LackingFields)
           \/ \E e \in Range(score_run.log) :
                 e.what = "skipped" /\ e.count = Cardinality(LackingFields)
        /\ \A r \in LiveItems \ LackingFields :
              Cardinality(PredictionsOf(r.set_number)) = 1

----------------------------------------------------------------------------
(* Training runs over a table of 50 to 53 featured rows retired in 2018,   *)
(* 2019, 2023 and 2024.                                                    *)

\* The horizons whose target the k-th row of the frame has: 1yr and 3yr
\* always, 2yr up to 2019, 6m except on the first row of 2018 and of 2019.
FrameTargets(year, i) ==
    {"1yr", "3yr"}
    \cup (IF year <= 2019 THEN {"2yr"} ELSE {})
    \cup (IF year \in {2018, 2019} /\ i = 1 THEN {} ELSE {"6m"})

\* The k-th stored row, the i-th of its year.  The discount is missing on
\* row 3, the theme statistics on the rows of 2018.
FrameRow(k, year, i) ==
    LET target == [h \in HorizonSet |->
                      IF h \in FrameTargets(year, i)
                      THEN Some(WScale * 100 * (k % 5)) ELSE None]
        stat   == IF year = 2018 THEN None ELSE Some(100 * (year - 2018))
    IN [set_num        |-> k,
        exit_date      |-> YearStarts[year - 2011] + i,
        rrp_gbp        |-> 10 + 10 * (k % 3),
        price          |-> [m \in Range(MilestoneNames) |-> None],
        target         |-> target,
        data_quality   |-> DataQuality(target),
        snapshot_count |-> 3,
        features       |->
            Some([theme |-> [h \in HorizonSet |->
                               [mean |-> stat, median |-> stat, std |-> None,
                                n |-> k % 7, prior_sets |-> {}, of_set |-> k]],
                  discount_at_retirement |->
                      CASE k = 3        -> None
                        [] year >= 2024 -> Some(50)
                        [] k % 2 = 0    -> Some(10)
                        [] OTHER        -> Some(20)])]

\* The table with a, b, c and d rows retired in 2018, 2019, 2023 and 2024.
TrainingTable(a, b, c, d) ==
    [k \in 1..(a + b + c + d) |->
        CASE k <= a         -> FrameRow(k, 2018, k)
          [] k <= a + b     -> FrameRow(k, 2019, k - a)
          [] k <= a + b + c -> FrameRow(k, 2023, k - a - b)
          [] OTHER          -> FrameRow(k, 2024, k - a - b - c)]

InitTrain ==
    /\ brickset_sets = {}
    /\ price_snapshots = {}
    /\ \E a \in {29, 30}, b \in {4, 5}, c \in {4, 5} :
          investment_training_data = TrainingTable(a, b, c, 13)
    /\ winsor_run = <<>>
    /\ ScoreIdle
    /\ BacktestIdle
    /\ ProcessIdle

NextTrain ==
    \/ TrainStart \/ TrainHorizon \/ TrainWriteModel \/ TrainWriteFeatures
    \/ TrainInsertRun \/ TrainReturn \/ TrainInterrupt

SpecTrain == InitTrain /\ [][NextTrain]_vars

\* The rows of the loaded frame that have a target of the horizon.
QualifyingRows(h) ==
    {i \in DOMAIN train_run.df : NotNull(train_run.df[i].target[h])}

\* Some CV fold has at least 30 training rows and at least 5 validation rows.
HasValidFold(h) ==
    \E j \in DOMAIN CV_FOLDS :
        /\ Cardinality({i \in QualifyingRows(h) :
                           train_run.df[i].retirement_year <= CV_FOLDS[j].train_end}) >= 30
        /\ Cardinality({i \in QualifyingRows(h) :
                           train_run.df[i].retirement_year = CV_FOLDS[j].val}) >= 5

\* The horizons that have a file in MODELS_DIR or a record in the table.
HorizonsWithArtifacts ==
    {f[1] : f \in model_files}
    \cup {investment_model_runs[i].horizon : i \in DOMAIN investment_model_runs}

\* C11: a horizon with fewer than 50 rows with a defined target, or without
\* a CV fold of at least 30 training and 5 validation rows, gets an empty
\* result and no model file, no feature list and no investment_model_runs
\* record; a run that returns has attempted all four horizons, and its
\* models_trained is the number of horizons that produced artifacts.
C11_SkippedHorizonWritesNothing ==
    /\ \A h \in HorizonSet :
          \/ /\ h \notin HorizonsWithArtifacts
             /\ h \notin Range(train_run.results)
             /\ \A j \in DOMAIN train_run.decisions :
                   HORIZONS[j] = h => ~train_run.decisions[j].trained
          \/ (Cardinality(QualifyingRows(h)) >= 50 /\ HasValidFold(h))
    /\ train_run.status = "returned" =>
          /\ Len(train_run.decisions) = Len(HORIZONS)
          /\ train_run.summary.models_trained
                = Cardinality({h \in HorizonSet :
                                  /\ \A k \in ModelFileKinds : <<h, k>> \in model_files
                                  /\ \E i \in DOMAIN investment_model_runs :
                                        investment_model_runs[i].horizon = h})
          /\ train_run.summary.models_trained = Cardinality(HorizonsWithArtifacts)

\* A run has returned after skipping one horizon for its sample count and
\* one for its folds, and training a horizon after a skipped one.
C11_Witness ==
    /\ train_run.status = "returned"
    /\ \E i, j, k \in DOMAIN train_run.decisions :
          /\ train_run.decisions[i].reason = "too_few_samples"
          /\ train_run.decisions[j].reason = "no_valid_fold"
          /\ train_run.decisions[j].samples >= 50
          /\ i < k /\ train_run.decisions[k].trained
    /\ train_run.summary.models_trained = 2

\* The loaded frame of a table that differs only by having no row retired in
\* 2024 or later.
WithoutHoldout(df) ==
    SelectSeq(df, LAMBDA r : r.retirement_year < FINAL_TEST_START)

\* The loaded frame of a table that differs only in the discount of the rows
\* retired in 2024 or later.
HoldoutDiscounted(df) ==
    [i \in DOMAIN df |->
        IF df[i].retirement_year >= FINAL_TEST_START
        THEN [df[i] EXCEPT !.features.discount_at_retirement = Some(0)]
        ELSE df[i]]

\* The final fit takes the rows of hdf up to 2023, in order, with weight 2
\* from 2020 on and 1 before.
FinalFitOnTrainingYears(df, h) ==
    LET hdf == HorizonFrame(df, h)
        fit == train_for_horizon(df, h).fit[1]
        upto == SelectSeq(hdf, LAMBDA r : r.retirement_year <= 2023)
    IN /\ [k \in DOMAIN fit.X |-> fit.X[k].set_num]
            = [k \in DOMAIN upto |-> upto[k].set_num]
       /\ fit.y = [k \in DOMAIN upto |-> upto[k].target[h][1]]
       /\ fit.weights = [k \in DOMAIN upto |->
                            IF upto[k].retirement_year >= 2020 THEN 2 ELSE 1]

\* C12: rows retired in 2024 or later are used for reporting only: when a
\* horizon goes on to its fits, the search inputs and the matrix, targets and
\* weights of the final fit are those the run would have built from a table
\* differing only in the rows of 2024 and later, and the final fit takes
\* exactly the rows up to 2023, weighted 2 from 2020 on and 1 before.
C12_HoldoutRowsReportingOnly ==
    (train_run.status = "running" /\ train_run.pc = "p25") =>
        LET h  == HORIZONS[train_run.h]
            d  == train_for_horizon(train_run.df, h)
        IN /\ FinalFitOnTrainingYears(train_run.df, h)
           /\ \A other \in {WithoutHoldout(train_run.df),
                            HoldoutDiscounted(train_run.df)} :
                 /\ train_for_horizon(other, h).search = d.search
                 /\ train_for_horizon(other, h).fit = d.fit

\* The training runs the files load_models returns for a horizon come from.
OriginsLoaded(h) == {artifact_origin[<<h, k>>] : k \in ModelFileKinds}

\* C13: whenever no training run is in progress (none started, or the last
\* one returned or was interrupted), the three model files and the feature
\* list that load_models returns for a horizon all come from one training
\* run.
C13_ArtifactsOfOneRun ==
    train_run.status # "running" =>
        \A h \in Range(load_models(model_files)) : Cardinality(OriginsLoaded(h)) = 1

\* C15: training is idempotent: when every training run so far has returned,
\* on a table that never changed, each run left MODELS_DIR and
\* investment_model_runs as the run before it had left them, with the same
\* number of records.
C15_TrainTwiceAsOnce ==
    train_run.runs = Len(train_run.persisted) =>
        \A i \in DOMAIN train_run.persisted : \A j \in DOMAIN train_run.persisted :
            /\ train_run.persisted[i].files = train_run.persisted[j].files
            /\ Len(train_run.persisted[i].model_runs)
                  = Len(train_run.persisted[j].model_runs)

----------------------------------------------------------------------------
(* Build and feature runs around an import of price history.               *)

NextRebuild == ImportSnapshot \/ BuildTrainingData \/ EngineerFeatures

SpecRebuild == InitBuild /\ [][NextRebuild]_vars

\* The price histories a run can have read: the one present at the start,
\* and the present one.
HistoriesRead == {{s \in price_snapshots : s.batch = 0}, price_snapshots}

\* The stored row of set n has the milestone prices and the discount feature
\* that one reading of the price history gives.
FromOneReading(n, ps) ==
    LET row   == investment_training_data[n]
        snaps == {s \in ps : s.set_num = n}
    IN /\ row.snapshot_count = Cardinality(snaps)
       /\ row.price = [m \in Range(MilestoneNames) |->
                          MilestonePrice(snaps, row.exit_date, m)]
       /\ row.features[1].discount_at_retirement = DiscountAtRetirement(ps, row)

\* C14: every stored training row that has a feature vector has its targets
\* and its features from one reading of the data: never the milestone prices
\* of one state of the price history with features computed from another.
C14_RowWrittenTogether ==
    \A n \in DOMAIN investment_training_data :
        NotNull(investment_training_data[n].features) =>
            \E ps \in HistoriesRead : FromOneReading(n, ps)

----------------------------------------------------------------------------
(* Orchestrated runs over four retired sets and three live items.          *)

LiveForPipeline == {LiveRow(101, 1), LiveRow(102, 2), LiveRow(103, 2)}

\* The price history has the 1yr windows of the retired sets, or only the
\* observations of the live items; the training table is empty or built, without
\* features; MODELS_DIR is complete or empty.
InitPipeline ==
    /\ brickset_sets = RetiredForScoring \cup LiveForPipeline
    /\ \E retired_snaps \in {RetiredSnapsForScoring, {}} :
          price_snapshots = retired_snaps \cup LiveSnaps(101, 1)
    /\ \E table \in {<<>>,
                     UpsertedTraining(<<>>, TrainingRows(RetiredForScoring,
                                                         RetiredSnapsForScoring))} :
          investment_training_data = table
    /\ model_files \in {AllModelFiles, {}}
    /\ investment_predictions = <<>>
    /\ score_run = NoRun
    /\ winsor_run = <<>>
    /\ BacktestIdle
    /\ ProcessIdle

NextPipeline ==
    \/ PipelineStart \/ PipelineBuild \/ PipelineFeatures \/ PipelineTrain
    \/ PipelineScore \/ PipelineFinish

SpecPipeline == InitPipeline /\ [][NextPipeline]_vars

C16_WitnessSingle ==
    /\ pipeline.mode = "single"
    /\ pipeline.status = "exited"
    /\ pipeline.exit_status = Some(1)
    /\ pipeline.results[1].status = "error"

\* The stored row of a key, if any.
StoredAt(table, n) == IF n \in DOMAIN table THEN <<table[n]>> ELSE <<>>

\* The records a step sends in the batches after the one numbered k.
AfterBatch(records, k) ==
    SubSeq(records, Min2(k * BATCH_SIZE, Len(records)) + 1, Len(records))

\* The records upsert_training_data sends, in order.
BuildRecords ==
    Deduped(SelectSeq(TrainingRows(brickset_sets, price_snapshots),
                      LAMBDA r : r.data_quality \in {"good", "partial"}))

\* C18: a step whose upsert request k is rejected is recorded with status
\* 'error', and the rows of its batches from k on are left as they were; a
\* build, features or score step recorded with status 'success' has left the
\* table as the upsert of all its records leaves it.
C18_FailedBatchFailsStep ==
    [][Len(pipeline'.results) = Len(pipeline.results) + 1 =>
        LET r  == pipeline'.results[Len(pipeline'.results)]
            df == fetch_training_sets(investment_training_data, brickset_sets)
            ok == r.status = "success"
            k  == r.failed_batch
        IN /\ k # 0 => r.status = "error"
           /\ r.step = "build" =>
                 /\ ok => investment_training_data' =
                             IF TrainingRows(brickset_sets, price_snapshots) = <<>>
                             THEN investment_training_data
                             ELSE UpsertedTraining(investment_training_data,
                                      TrainingRows(brickset_sets, price_snapshots))
                 /\ k # 0 =>
                       \A rec \in Range(AfterBatch(BuildRecords, k - 1)) :
                           StoredAt(investment_training_data', rec.set_num)
                              = StoredAt(investment_training_data, rec.set_num)
           /\ r.step = "features" =>
                 /\ ok => \E order \in sort_values(df),
                              last \in SnapshotReads(price_snapshots, df, Len(df)) :
                             investment_training_data' =
                                 UpdatedFeatures(investment_training_data, df,
                                     build_feature_matrix(price_snapshots, df, order,
                                                          last))
                 /\ k # 0 =>
                       \A rec \in Range(AfterBatch(df, k - 1)) :
                           StoredAt(investment_training_data', rec.set_num)
                              = StoredAt(investment_training_data, rec.set_num)
           /\ r.step = "score" =>
                 /\ ok => \E out \in Outputs :
                             investment_predictions' =
                                 run(model_files, brickset_sets, price_snapshots,
                                     investment_training_data, investment_predictions,
                                     [i \in 1..Len(fetch_active_sets(brickset_sets)) |-> out]).table
                 /\ k # 0 =>
                       \A rec \in Range(AfterBatch(score_run'.predictions, k - 1)) :
                           StoredAt(investment_predictions', rec["set_num"])
                              = StoredAt(investment_predictions, rec["set_num"])
    ]_vars

\* A full run whose build applied its two batches and whose features step
\* was rejected at its second request: the rows of the first batch have
\* their features, those of the second have none, and the run has stopped.
C18_Witness ==
    /\ pipeline.mode = "full"
    /\ pipeline.status \in {"halted", "finished"}
    /\ Len(pipeline.results) = 2
    /\ pipeline.results[1] = [step |-> "build", status |-> "success",
                              batches |-> 2, failed_batch |-> 0]
    /\ pipeline.results[2] = [step |-> "features", status |-> "error",
                              batches |-> 2, failed_batch |-> 2]
    /\ DOMAIN investment_training_data = 1..4
    /\ {n \in 1..4 : NotNull(investment_training_data[n].features)} = {1, 2}

----------------------------------------------------------------------------
(* Records of two numeric fields through the three sanitizers.             *)

\* The values a field can hold: null, or 0 or 1 in any representation, or
\* NaN or an infinity in a floating representation.
FieldValues ==
    {None}
    \cup {Number(rep, "finite", n) : rep \in Representations, n \in {0, 1}}
    \cup {Number(rep, kind, 0) : rep \in Representations \ {"np.int64"}, kind \in NonFinite}

InitSanitize ==
    /\ brickset_sets = {}
    /\ price_snapshots = {}
    /\ investment_training_data = <<>>
    /\ winsor_run = <<>>
    /\ ScoreIdle
    /\ BacktestIdle
    /\ TrainIdle
    /\ pipeline = NoPipeline
    /\ validation_run = NoValidation
    /\ \E a \in FieldValues, b \in FieldValues :
          sanitize_run = [NoPayload EXCEPT !.record = [x |-> a, y |-> b]]
    /\ LoopsIdle

NextSanitize == SanitizeTrainingRecord \/ SanitizeFeatures \/ SanitizePrediction

SpecSanitize == InitSanitize /\ [][NextSanitize]_vars

\* C17: in the payload a sanitizer makes of a record, every field whose
\* value was NaN, +Inf or -Inf, in any representation, is null, and no field
\* is NaN or infinite.
C17_NonFiniteBecomesNull ==
    sanitize_run.by # "none" =>
        \A k \in DOMAIN sanitize_run.record :
            /\ (sanitize_run.record[k] # None
                  /\ sanitize_run.record[k][1].kind \in NonFinite)
                  => sanitize_run.payload[k] = None
            /\ sanitize_run.payload[k] # None
                  => sanitize_run.payload[k][1].kind = "finite"

----------------------------------------------------------------------------
(* Validation runs over the tables of the training runs, beside production *)
(* artifacts that exist or not.                                            *)

InitValidate ==
    /\ brickset_sets = {}
    /\ price_snapshots = {}
    /\ \E a \in {29, 30}, b \in {4, 5}, c \in {4, 5} :
          investment_training_data = TrainingTable(a, b, c, 13)
    /\ winsor_run = <<>>
    /\ model_files \in {AllModelFiles, {}}
    /\ investment_predictions = <<>>
    /\ score_run = NoRun
    /\ BacktestIdle
    /\ artifact_origin = [f \in model_files |-> 0]
    /\ investment_model_runs \in
          {<<>>, <<run_record("1yr", 15, [training_rows |-> 40])>>}
    /\ train_run = NoTraining
    /\ pipeline = NoPipeline
    /\ validation_run = NoValidation
    /\ sanitize_run = NoPayload
    /\ LoopsIdle

NextValidate ==
    \/ ValidateStart \/ ValidateBacktest \/ ValidateCalibration \/ ValidateBaseline
    \/ ValidateFinish

SpecValidate == InitValidate /\ [][NextValidate]_vars

\* One fold of the trainer's search for a horizon of the loaded frame.
TrainerFold(df, h, fold) ==
    LET hdf == HorizonFrame(df, h)
    IN IF Len(hdf) < MIN_HORIZON_ROWS THEN <<>>
       ELSE SearchFold(hdf, Imputed(hdf, hdf, h), fold, h)

\* A protocol and the trainer treat a fold alike: both skip it, or both fit
\* on the same rows with the same weights and the same imputed matrix.
SameFold(df, h, fold, protocol) ==
    LET v == ProtocolFold(HorizonFrame(df, h), fold, h, protocol)
        t == TrainerFold(df, h, fold)
    IN /\ (v = <<>>) <=> (t = <<>>)
       /\ (v # <<>> /\ t # <<>>) =>
             /\ v[1].train.weights = t[1].train.weights
             /\ v[1].train.y = t[1].train.y
             /\ v[1].train.X = t[1].train.X

\* C19: for the frame a validation run loaded, every protocol it ran and
\* every fold, the protocol evaluates the fold exactly when the trainer
\* would, and hands the regressor the training rows, weights and imputed
\* matrix the trainer builds for that fold.
C19_ValidatorFitsAsTrainer ==
    \A i \in DOMAIN validation_run.protocols :
        \A h \in Range(ProtocolHorizons(validation_run.protocols[i].protocol)) :
            \A j \in DOMAIN CV_FOLDS :
                SameFold(validation_run.df, h, CV_FOLDS[j],
                         validation_run.protocols[i].protocol)

\* The production artifacts: the files of MODELS_DIR and two tables.
ProductionStores == {"MODELS_DIR", "investment_model_runs", "investment_predictions"}

\* C20: no step of a validation run changes or reads the files of MODELS_DIR,
\* investment_model_runs or investment_predictions, and every model a fold
\* predicts with was fitted in that fold of that protocol.
C20_ProductionArtifactsUntouched ==
    [][validation_run' # validation_run =>
          /\ UNCHANGED <<model_files, artifact_origin, investment_model_runs,
                         investment_predictions>>
          /\ validation_run'.accessed \cap ProductionStores = {}
          /\ validation_run'.written \cap ProductionStores = {}
          /\ \A i \in DOMAIN validation_run'.protocols :
                \A j \in DOMAIN validation_run'.protocols[i].folds :
                    LET f == validation_run'.protocols[i].folds[j]
                    IN /\ f.predicted_with # {}
                       /\ f.predicted_with \subseteq f.fitted
                       /\ \A m \in f.fitted :
                             m.fit_in = <<validation_run'.protocols[i].protocol,
                                          f.train_end, f.test>>
    ]_vars

\* A run of all three protocols returned beside complete production
\* artifacts, each protocol having evaluated a fold.
C20_Witness ==
    /\ validation_run.status = "returned"
    /\ Len(validation_run.protocols) = 3
    /\ \A i \in 1..3 : validation_run.protocols[i].folds # <<>>
    /\ model_files = AllModelFiles
    /\ investment_model_runs # <<>>

----------------------------------------------------------------------------
(* The hyperparameter search over tables of featured rows retired in 2018  *)
(* to 2023.                                                                *)

\* The table with counts[y] rows retired in the y-th year from 2018 on.
SearchTable(counts) ==
    LET before(y) == SumSeq(SubSeq(counts, 1, y - 1))
        yearOf(k) == CHOOSE y \in DOMAIN counts :
                        before(y) < k /\ k <= before(y) + counts[y]
    IN [k \in 1..SumSeq(counts) |->
          FrameRow(k, 2017 + yearOf(k), k - before(yearOf(k)))]

\* Rows per year 2018..2023: every fold eligible; the first fold one
\* training row short and the last without validation rows; the third fold
\* one validation row short; fifty rows and no eligible fold; under fifty
\* rows.
SearchTables ==
    {<<31, 6, 5, 5, 5, 5>>, <<29, 6, 5, 5, 5, 0>>, <<31, 6, 5, 4, 5, 0>>,
     <<25, 4, 4, 4, 4, 9>>, <<30, 5, 5, 5, 0, 0>>}

InitSearch ==
    /\ brickset_sets = {}
    /\ price_snapshots = {}
    /\ \E counts \in SearchTables : investment_training_data = SearchTable(counts)
    /\ winsor_run = <<>>
    /\ ScoreIdle
    /\ BacktestIdle
    /\ ProcessIdle

NextSearch == SearchStart \/ SearchFoldStep \/ SearchEnd

SpecSearch == InitSearch /\ [][NextSearch]_vars

\* The folds of CV_FOLDS with at least 30 training rows (retirement_year up
\* to train_end) and at least 5 validation rows among the rows of the frame.
EligibleFolds ==
    {j \in DOMAIN CV_FOLDS :
        /\ Cardinality({i \in DOMAIN search_run.hdf :
              search_run.hdf[i].retirement_year <= CV_FOLDS[j].train_end}) >= 30
        /\ Cardinality({i \in DOMAIN search_run.hdf :
              search_run.hdf[i].retirement_year = CV_FOLDS[j].val}) >= 5}

\* The studies run so far are those of the eligible folds reached, in order.
StudiesOfEligibleFolds ==
    /\ {search_run.studies[k].fold : k \in DOMAIN search_run.studies}
          = {j \in EligibleFolds : j < search_run.fold}
    /\ \A k, l \in DOMAIN search_run.studies :
          k < l => search_run.studies[k].fold < search_run.studies[l].fold

\* best_val_mae and best_params are those of the earliest study whose value
\* is the minimum of the values of the studies run so far.
BestIsEarliestMinimum ==
    IF search_run.studies = <<>>
    THEN search_run.best_val_mae = Infinite /\ search_run.best_params = None
    ELSE \E k \in DOMAIN search_run.studies :
            /\ \A l \in DOMAIN search_run.studies :
                  /\ search_run.studies[k].best_value <= search_run.studies[l].best_value
                  /\ l < k => search_run.studies[k].best_value
                                 < search_run.studies[l].best_value
            /\ search_run.best_val_mae = Finite(search_run.studies[k].best_value)
            /\ search_run.best_params = Some(search_run.studies[k].best_params)

\* best_val_mae does not increase in a step of the loop.
BestNeverIncreases ==
    (search_run.status = "searching" /\ search_run'.hdf = search_run.hdf
        /\ ~search_run.best_val_mae.inf)
    => /\ ~search_run'.best_val_mae.inf
       /\ search_run'.best_val_mae.v <= search_run.best_val_mae.v

\* C21: after the search loop best_val_mae is the minimum of study.best_value
\* over the eligible folds (at least 30 training and 5 validation rows) and
\* best_params the parameters of the earliest fold attaining it; during the
\* loop best_val_mae never increases and best_params and best_val_mae belong
\* to the same fold; best_params is None exactly when no fold was eligible.
C21_BestOfEligibleFolds ==
    /\ [](search_run.status \in {"searching", "searched", "no_valid_fold"} =>
            /\ StudiesOfEligibleFolds
            /\ BestIsEarliestMinimum
            /\ search_run.status = "searched" =>
                  search_run.fold > Len(CV_FOLDS) /\ EligibleFolds # {}
            /\ search_run.status = "no_valid_fold" =>
                  /\ search_run.fold > Len(CV_FOLDS)
                  /\ EligibleFolds = {} /\ search_run.best_params = None)
    /\ [][BestNeverIncreases]_vars

\* A search has ended after a skipped fold and three studies, the second and
\* the third both attaining the minimum with different parameters.
C21_Witness ==
    /\ search_run.status = "searched"
    /\ Len(search_run.studies) = 3
    /\ search_run.studies[1].fold > 1
    /\ search_run.studies[1].best_value > search_run.studies[2].best_value
    /\ search_run.studies[2].best_value = search_run.studies[3].best_value
    /\ search_run.studies[2].best_params # search_run.studies[3].best_params
    /\ search_run.best_params = Some(search_run.studies[2].best_params)

----------------------------------------------------------------------------
\* C22: for every input order of the training rows, the theme mean, median,
\* std and sample size persisted under a set_num are those computed from
\* that row's own theme and exit_date, not those computed for another row.
C22_FeaturesOfOwnRow ==
    \A n \in DOMAIN investment_training_data :
        LET row == investment_training_data[n] IN
        NotNull(row.features) =>
            \A h \in HorizonSet : row.features[1].theme[h].of_set = n

----------------------------------------------------------------------------
(* Build and feature engineering over two retired sets of different exit   *)
(* dates, one of which has two observations on the last day of its         *)
(* retirement window.                                                      *)

\* An observation of set n: its day, price, seller count and buy-box winner.
Observed(n, date, price, seller_count, buy_box_winner) ==
    [set_num |-> n, date |-> date, price_gbp |-> price, batch |-> 0,
     seller_count |-> seller_count, buy_box_winner |-> buy_box_winner]

\* The seller count and buy-box winner of the second observation of day 105.
TiedObservations == {<<Some(3), Some("Amazon")>>, <<Some(7), Some("Amazon")>>,
                     <<Some(3), Some("Other")>>, <<None, None>>}

InitOrder ==
    /\ brickset_sets = {SetRow(1, 100, 10, Some("A")), SetRow(2, 500, 20, Some("A"))}
    /\ \E f1 \in FillVectors, f2 \in FillVectors, tied \in TiedObservations :
          price_snapshots =
              Fill(1, 100, f1) \cup Fill(2, 500, f2)
              \cup {Observed(1, 105, 20, Some(3), Some("Amazon")),
                    Observed(1, 105, 10, tied[1], tied[2])}
    /\ investment_training_data = <<>>
    /\ winsor_run = <<>>
    /\ ScoreIdle
    /\ BacktestIdle
    /\ ProcessIdle

NextOrder == BuildTrainingData \/ EngineerFeatures

SpecOrder == InitOrder /\ [][NextOrder]_vars

\* The feature vectors engineer_features can persist for a set from the
\* present tables, over the orders in which the store can return the rows.
FeatureVectorsOf(n) ==
    LET df == fetch_training_sets(investment_training_data, brickset_sets)
    IN {build_feature_matrix(price_snapshots, df, order, last)[i] :
           <<order, last, i>> \in
               {x \in sort_values(df) \X SnapshotReads(price_snapshots, df, Len(df))
                      \X DOMAIN df : df[x[3]].set_num = n}}

\* C23: the persisted TrainingRow does not depend on the order in which the
\* store returns rows: for every order of the retired sets, training rows
\* and price observations returned by the reads, build and feature
\* engineering persist the same milestone prices, targets, quality tag and
\* feature values (seller_count_at_retirement and buy_box_is_amazon
\* included) for every set_num.
C23_ReadOrderIrrelevant ==
    \A n \in DOMAIN investment_training_data :
        LET row == investment_training_data[n] IN
        /\ \E r \in Range(TrainingRows(brickset_sets, price_snapshots)) :
              r.set_num = n /\ r.price = row.price /\ r.target = row.target
                            /\ r.data_quality = row.data_quality
        /\ NotNull(row.features) => FeatureVectorsOf(n) = {row.features[1]}

----------------------------------------------------------------------------
(* Build, feature engineering and scoring over four retired sets of        *)
(* distinct exit dates and one live item.                                  *)

\* Sets 1..3 have theme A, set 4 theme A or B; the live item has theme A,
\* B, Z (a theme without training rows) or none.
InitThin ==
    /\ \E t4 \in {Some("A"), Some("B")}, live \in {Some("A"), Some("B"), Some("Z"), None},
          f4 \in {<<0, 0, 3, 0, 0>>, <<0, 0, 3, 0, 3>>} :
          /\ brickset_sets =
                {SetRow(1, 100, 10, Some("A")), SetRow(2, 200, 10, Some("A")),
                 SetRow(3, 300, 20, Some("A")), SetRow(4, 400, 10, t4),
                 [LiveRow(101, 1) EXCEPT !.theme = live]}
          /\ price_snapshots =
                Fill(1, 100, <<0, 0, 3, 0, 0>>) \cup Fill(2, 200, <<0, 0, 3, 0, 0>>)
                \cup Fill(3, 300, <<0, 0, 3, 0, 0>>) \cup Fill(4, 400, f4)
                \cup LiveSnaps(101, 1)
    /\ investment_training_data = <<>>
    /\ investment_predictions = <<>>
    /\ score_run = NoRun
    /\ winsor_run = <<>>
    /\ model_files = AllModelFiles
    /\ BacktestIdle
    /\ ProcessIdle

NextThin == BuildTrainingData \/ EngineerFeatures \/ ScoreRun

SpecThin == InitThin /\ [][NextThin]_vars

ThemeColumns == {"theme_mean_log", "theme_median_log", "theme_std_log", "theme_sample_size"}

\* The training rows of a theme that have a target of the horizon.
HistoricalComparables(theme, h) ==
    {m \in DOMAIN investment_training_data :
        /\ NotNull(theme)
        /\ ThemeOf(brickset_sets, m) = theme
        /\ investment_training_data[m].data_quality \in {"good", "partial"}
        /\ NotNull(investment_training_data[m].target[h])}

\* C24: whenever fewer than 3 qualifying comparable items exist for an item
\* and a horizon, the theme mean, median, standard deviation and sample size
\* of that pair are all null: for a training row (prior items of the theme
\* with strictly earlier exit_date) and for a live item at scoring time
\* (items of the theme in the training set).
C24_ThinThemeAllNull ==
    /\ \A r \in Range(load_training_data(investment_training_data)), h \in HorizonSet :
          Cardinality(AllowedPrior(r.set_num, h)) < 3 =>
              \A c \in ThemeColumns : ~IsValue(ColumnValue(r, c, h))
    /\ score_run.status = "returned" =>
          \A i \in DOMAIN score_run.features, h \in HorizonSet :
              Cardinality(HistoricalComparables(score_run.df[i].theme, h)) < 3 =>
                  LET t == score_run.features[i].theme[h] IN
                  /\ ~IsValue(t.mean) /\ ~IsValue(t.median)
                  /\ ~IsValue(t.std) /\ ~IsValue(t.n)

----------------------------------------------------------------------------
\* C25: at training time every null feature is replaced by its column median
\* before the fit; at scoring time a null feature value (or a column absent
\* from the live feature matrix) reaches predict as null, no imputed or
\* default value being substituted; in both cases the feature vector has
\* exactly the persisted feature names in the persisted order.
C25_NullReachesPredict ==
    score_run.status = "returned" =>
        \A i \in DOMAIN score_run.X, h \in Range(score_run.models) :
            /\ Len(score_run.X[i][h]) = Len(PersistedFeatures(h))
            /\ \A k \in DOMAIN PersistedFeatures(h) :
                  LET v == LiveColumnValue(score_run.features[i], PersistedFeatures(h)[k], h)
                  IN IF IsValue(v) THEN score_run.X[i][h][k] = v
                     ELSE ~IsValue(score_run.X[i][h][k])

----------------------------------------------------------------------------
\* The investment_score of prediction i recomputed from the predicted values
\* of the run alone.
ScoreOfPredictedValues(i) ==
    LET Col(k) == [j \in DOMAIN score_run.predictions |-> score_run.predictions[j][k]]
    IN Some(RoundDiv(Composite(FillHalf(RankPct(Col(PredField["1yr"].appreciation), i)),
                               FillHalf(score_run.predictions[i][PredField["1yr"].confidence]),
                               FillHalf(RankPct(Col("expected_profit_1yr_gbp"), i)),
                               FillHalf(RankPct(Col("risk_adjusted_score"), i))),
                     1000))

\* C28: the thin_theme_data flag is raised for a scored item exactly when its
\* category has fewer than 5 historical comparables at the 1yr horizon, the
\* cases of no comparable and of a category absent from the training data
\* included; whichever flags are raised, the investment_score is that of the
\* predicted values.
C28_ThinThemeFlag ==
    score_run.status = "returned" =>
        \A i \in DOMAIN score_run.predictions :
            "risk_factors" \in DOMAIN score_run.predictions[i] =>
                /\ ("thin_theme_data" \in Range(score_run.predictions[i]["risk_factors"]))
                       <=> (Cardinality(HistoricalComparables(score_run.df[i].theme, "1yr")) < 5)
                /\ score_run.predictions[i]["investment_score"] = ScoreOfPredictedValues(i)
----------------------------------------------------------------------------
(* The groups of the backtest and the skip thresholds of both protocols.   *)

\* The test sizes of the frames: under, at and over the sizes at which a
\* third of the test rows reaches 5 and 6.
GroupTestSizes == {9, 12, 15, 18}

InitGroups ==
    /\ brickset_sets = {}
    /\ price_snapshots = {}
    /\ investment_training_data = <<>>
    /\ winsor_run = <<>>
    /\ ScoreIdle
    /\ BacktestIdle
    /\ TrainIdle
    /\ pipeline = NoPipeline
    /\ validation_run = NoValidation
    /\ sanitize_run = NoPayload
    /\ search_run = NoSearch
    /\ page_run = NoPaging
    /\ calibration_run = NoCalibration
    /\ \E n_train \in {29, 30}, n_test \in GroupTestSizes :
          portfolio_run = [NoPortfolio EXCEPT !.hdf = BacktestFrame(n_train, n_test)]

NextGroups == TopBottomBacktest \/ BaselineComparison

SpecGroups == InitGroups /\ [][NextGroups]_vars

\* The test years of the folds with at least 30 training rows and at least
\* 10 test rows in which the smaller of the requested top_n and a third of
\* the test size (rounded down) is at least least_n.
FoldsWithGroups(least_n) ==
    LET hdf == portfolio_run.hdf
        n_train(fold) == Cardinality({i \in DOMAIN hdf : hdf[i].retirement_year <= fold.train_end})
        n_test(fold) == Cardinality({i \in DOMAIN hdf : hdf[i].retirement_year = fold.test})
    IN {CV_FOLDS[k].test : k \in {j \in DOMAIN CV_FOLDS :
            /\ n_train(CV_FOLDS[j]) >= 30
            /\ n_test(CV_FOLDS[j]) >= 10
            /\ portfolio_run.top_n >= least_n
            /\ n_test(CV_FOLDS[j]) \div 3 >= least_n}}

\* N is the smaller of the requested top_n and a third of the test size.
GroupSizeIsThird(f) ==
    f.top_n = IF portfolio_run.top_n <= f.test_size \div 3 THEN portfolio_run.top_n
              ELSE f.test_size \div 3

\* The three groups split the test rows; the top group holds N rows none of
\* which scores under a row outside it, the bottom group N rows none of which
\* scores over a row outside it; the middle is empty exactly when the test
\* set has 2N rows.
GroupsSplitByScore(f) ==
    LET score(i) == f.test_df[i].investment_score
        top == Range(f.groups.top)
        middle == Range(f.groups.middle)
        bottom == Range(f.groups.bottom)
    IN /\ Len(f.test_df) = f.test_size
       /\ Len(f.groups.top) = f.top_n /\ Cardinality(top) = f.top_n
       /\ Len(f.groups.bottom) = f.top_n /\ Cardinality(bottom) = f.top_n
       /\ Cardinality(middle) = Len(f.groups.middle)
       /\ top \cup middle \cup bottom = DOMAIN f.test_df
       /\ top \cap middle = {} /\ top \cap bottom = {} /\ middle \cap bottom = {}
       /\ \A i \in top, j \in DOMAIN f.test_df \ top : score(i) >= score(j)
       /\ \A i \in bottom, j \in DOMAIN f.test_df \ bottom : score(i) <= score(j)
       /\ (f.groups.middle = <<>>) <=> (f.test_size = 2 * f.top_n)

\* C26: in every fold of the portfolio backtest the group size N is the
\* smaller of the requested top_n and the test size divided by three rounded
\* down; the top group is the N highest-scoring test rows, the bottom group
\* the N lowest-scoring, the middle group every other row, empty exactly when
\* the test set has 2N rows; the folds evaluated are those with N of at least
\* 5 in the backtest and at least 3 in the baseline comparison, whose model
\* picks are N rows of the largest predicted appreciation.
C26_TopBottomGroups ==
    /\ "backtest" \in portfolio_run.ran =>
          /\ {f.test : f \in Range(portfolio_run.backtest)} = FoldsWithGroups(5)
          /\ \A f \in Range(portfolio_run.backtest) :
                GroupSizeIsThird(f) /\ GroupsSplitByScore(f)
    /\ "baseline" \in portfolio_run.ran =>
          /\ {f.test : f \in Range(portfolio_run.baseline)} = FoldsWithGroups(3)
          /\ \A f \in Range(portfolio_run.baseline) :
                /\ GroupSizeIsThird(f)
                /\ Len(f.model_top) = f.top_n
                /\ Cardinality(Range(f.model_top)) = f.top_n

\* A backtest in which a third of the test rows is under the requested top_n
\* and the last row of the top group has the score of the first row of the
\* middle group, followed by its baseline comparison.
C26_Witness ==
    /\ portfolio_run.ran = {"backtest", "baseline"}
    /\ portfolio_run.baseline # <<>>
    /\ \E f \in Range(portfolio_run.backtest) :
          /\ f.top_n = f.test_size \div 3
          /\ f.top_n < portfolio_run.top_n
          /\ f.groups.middle # <<>>
          /\ f.test_df[f.groups.top[f.top_n]].investment_score
                = f.test_df[f.groups.middle[1]].investment_score

----------------------------------------------------------------------------
(* The aggregate of the quantile calibration.                              *)

\* Rows per retirement year from 2018 to 2024: the last two folds evaluated
\* on 5 and 15 test rows, the last fold only on 16, and no fold for want of
\* a thirtieth training row.
CalibrationTables ==
    {<<30, 0, 0, 0, 0, 5, 15>>, <<30, 0, 0, 0, 0, 4, 16>>, <<29, 0, 0, 0, 0, 5, 16>>}

\* The table of the counts; the first six rows have the 1yr target only, so
\* the frames of the other horizons stay under 50 rows.
CalibrationTable(counts) ==
    [k \in 1..SumSeq(counts) |->
        IF k <= 6
        THEN [SearchTable(counts)[k] EXCEPT
                 !.target = [h \in HorizonSet |-> IF h = "1yr" THEN @[h] ELSE None]]
        ELSE SearchTable(counts)[k]]

InitCalibration ==
    /\ brickset_sets = {}
    /\ price_snapshots = {}
    /\ \E counts \in CalibrationTables :
          investment_training_data = CalibrationTable(counts)
    /\ winsor_run = <<>>
    /\ ScoreIdle
    /\ BacktestIdle
    /\ ProcessIdle

NextCalibration == CalibrationStart \/ CalibrationFoldStep \/ CalibrationEnd

SpecCalibration == InitCalibration /\ [][NextCalibration]_vars

\* The test rows of all evaluated folds, and those of them below the fold's
\* prediction of quantile q.
PooledRows == SumSeq([i \in DOMAIN calibration_run.folds |->
                         calibration_run.folds[i].test_size])
PooledBelow(q) == SumSeq([i \in DOMAIN calibration_run.folds |->
                             calibration_run.folds[i].below[q]])

\* The largest of the three pooled absolute errors, in hundredths of one
\* pooled row.
PooledWorstError ==
    LET e(q) == Abs(100 * PooledBelow(q) - NominalLevel(q) * PooledRows)
    IN Max2(e("p25"), Max2(e("p50"), e("p75")))

\* The aggregate is that of the pooled rows.
AggregateIsPooled ==
    (calibration_run.status = "done" /\ calibration_run.aggregate # None) =>
        /\ calibration_run.aggregate[1].total_oos_samples = PooledRows
        /\ \A q \in Range(QUANTILES) :
              calibration_run.aggregate[1].agg_below[q]
                  = Double(PooledBelow(q), PooledRows)

\* The assessment follows the thresholds of 10 and 15 points.
AssessmentByThreshold ==
    (calibration_run.status = "done" /\ calibration_run.aggregate # None) =>
        calibration_run.aggregate[1].calibration_assessment =
            IF PooledWorstError < 10 * PooledRows THEN "well_calibrated"
            ELSE IF PooledWorstError < 15 * PooledRows THEN "moderately_calibrated"
            ELSE "poorly_calibrated"

\* C27: for each horizon the aggregate calibration figures are those of the
\* pooled test rows of all evaluated folds (pooled actuals strictly below the
\* pooled prediction over the pooled row count), and the assessment is
\* well_calibrated exactly when the largest of the three pooled absolute
\* errors is under 0.10, moderately_calibrated exactly when it is at least
\* 0.10 and under 0.15, and poorly_calibrated otherwise.
C27_PooledCalibration == AggregateIsPooled /\ AssessmentByThreshold

----------------------------------------------------------------------------
(* The trainer's search and the validator's protocols over the same table. *)

InitFolds ==
    /\ brickset_sets = {}
    /\ price_snapshots = {}
    /\ \E a \in {29, 30} : investment_training_data = TrainingTable(a, 5, 5, 13)
    /\ winsor_run = <<>>
    /\ ScoreIdle
    /\ BacktestIdle
    /\ ProcessIdle

NextFolds ==
    \/ SearchStart \/ SearchFoldStep \/ SearchEnd
    \/ ValidateStart \/ ValidateBacktest \/ ValidateCalibration \/ ValidateBaseline
    \/ ValidateFinish

SpecFolds == InitFolds /\ [][NextFolds]_vars

\* train_end < val < test in every configured fold, and the folds are listed
\* in increasing train_end.
FoldsOrdered ==
    /\ \A j \in DOMAIN CV_FOLDS :
          CV_FOLDS[j].train_end < CV_FOLDS[j].val /\ CV_FOLDS[j].val < CV_FOLDS[j].test
    /\ \A j, k \in DOMAIN CV_FOLDS :
          j < k => CV_FOLDS[j].train_end < CV_FOLDS[k].train_end

\* The rows fitted on retire by train_end, the rows evaluated in `year`; no
\* set is in both, and every row evaluated retires after every row fitted on.
FitBeforeEvaluated(fit_on, evaluated_on, train_end, year) ==
    /\ \A r \in fit_on : r.retirement_year <= train_end /\ r.retirement_year # year
    /\ \A r \in evaluated_on : r.retirement_year = year
    /\ {r.set_num : r \in fit_on} \cap {r.set_num : r \in evaluated_on} = {}
    /\ \A r \in fit_on, e \in evaluated_on : r.retirement_year < e.retirement_year

\* C29: in every fold of CV_FOLDS train_end < val < test and the folds are in
\* increasing train_end; the rows a study of the trainer's search fits on
\* (retirement_year <= train_end) hold no row of the validation year, the
\* rows a fold of a validator protocol fits on hold no row of its test year,
\* and every row evaluated retires strictly after every row fitted on.
C29_FoldsTemporallyDisjoint ==
    /\ FoldsOrdered
    /\ \A k \in DOMAIN search_run.studies :
          LET s == search_run.studies[k]
          IN FitBeforeEvaluated(s.fit_on, s.evaluated_on,
                                CV_FOLDS[s.fold].train_end, CV_FOLDS[s.fold].val)
    /\ \A i \in DOMAIN validation_run.protocols :
          \A j \in DOMAIN validation_run.protocols[i].folds :
              LET f == validation_run.protocols[i].folds[j]
              IN FitBeforeEvaluated(f.fit_on, f.evaluated_on, f.train_end, f.test)

\* The search has run the studies of two folds, and a run of all three
\* protocols has returned, each protocol having evaluated a fold.
C29_Witness ==
    /\ search_run.status = "searched"
    /\ Len(search_run.studies) = 2
    /\ \A k \in 1..2 : search_run.studies[k].fit_on # {}
                       /\ search_run.studies[k].evaluated_on # {}
    /\ validation_run.status = "returned"
    /\ Len(validation_run.protocols) = 3
    /\ \A i \in 1..3 : /\ validation_run.protocols[i].folds # <<>>
                       /\ \A j \in DOMAIN validation_run.protocols[i].folds :
                             validation_run.protocols[i].folds[j].evaluated_on # {}

----------------------------------------------------------------------------
(* An offset-pagination loop over result sets of up to MaxPagedRows rows,  *)
(* ordered by a column whose values are distinct (set_number) or shared by *)
(* neighbouring rows (exit_date, date).                                    *)

MaxPagedRows == 7

\* n rows; with `shared`, rows 2 and 3, 4 and 5, 6 and 7 have the same value
\* in the order column.
ResultSet(n, shared) ==
    {[id |-> i, key |-> IF shared THEN i \div 2 ELSE i] : i \in 1..n}

InitPaging ==
    /\ brickset_sets = {}
    /\ price_snapshots = {}
    /\ investment_training_data = <<>>
    /\ winsor_run = <<>>
    /\ ScoreIdle
    /\ BacktestIdle
    /\ TrainIdle
    /\ pipeline = NoPipeline
    /\ validation_run = NoValidation
    /\ sanitize_run = NoPayload
    /\ search_run = NoSearch
    /\ calibration_run = NoCalibration
    /\ portfolio_run = NoPortfolio
    /\ \E n \in 0..MaxPagedRows, shared \in BOOLEAN :
          page_run = [NoPaging EXCEPT !.rows = ResultSet(n, shared)]

NextPaging == PagingStart \/ PagingRequest

SpecPaging == InitPaging /\ [][NextPaging]_vars

\* The requests made so far are at offsets 0, PAGE_SIZE, 2 * PAGE_SIZE, ..,
\* and no more of them than the full pages of the result set plus one.
RequestsInSteps ==
    /\ \A k \in DOMAIN page_run.requests : page_run.requests[k] = (k - 1) * PAGE_SIZE
    /\ Len(page_run.requests) <= Cardinality(page_run.rows) \div PAGE_SIZE + 1

\* The loop stops at the first page that is empty or short: after the last
\* full page comes one more request, whose page is empty exactly when the
\* count is a multiple of the page size.
StopsAtShortPage ==
    page_run.status = "done" =>
        /\ Len(page_run.requests) = Cardinality(page_run.rows) \div PAGE_SIZE + 1
        /\ page_run.last_page = Cardinality(page_run.rows) % PAGE_SIZE

\* The rows returned are the rows of the result set, each once, in the order
\* of the column.
EachRowOnceInOrder ==
    page_run.status = "done" =>
        /\ Len(page_run.all_rows) = Cardinality(page_run.rows)
        /\ Range(page_run.all_rows) = page_run.rows
        /\ \A j, k \in DOMAIN page_run.all_rows :
              j < k => page_run.all_rows[j].key <= page_run.all_rows[k].key

\* C30: on a finite, unchanging result set of n rows every offset-pagination
\* loop stops, having requested the offsets 0, 1000, 2000, .. up to the first
\* page that is empty or shorter than the page size (one extra, empty page
\* when n is a positive multiple of the page size), and returns each of the
\* n rows exactly once in store order.
C30_PaginationExact == RequestsInSteps /\ StopsAtShortPage /\ EachRowOnceInOrder

====
